---- MODULE Spec2Model ----
(***************************************************************************)
(* Model of the m68k assembler's Assemble call (assembler/assembler.go):   *)
(* the node list produced by the parser, the sizing fixed point            *)
(* (runSizingPass), label resolution (generateInstructionCode), branch     *)
(* sizing and encoding (getSizeBra, assembleBra, assembleDbcc), directive  *)
(* sizing and emission (getDirectiveSize, generateDirectiveCode) and the   *)
(* final code generation pass.                                             *)
(***************************************************************************)
EXTENDS Integers, Sequences, FiniteSets, TLC

\* ------------------------------------------------------------------ bounds
\* Longest node list the model assembles.
MaxNodes == 3

\* --------------------------------------------------------- program constants
RegLabel == 254
ModeData == 0
ModeAddr == 1
ModeOther == 7
ModeAddrInd == 2
ModeAddrPostInc == 3
ModeAddrPreDec == 4
ModeAddrDisp == 5
ModeAddrIndex == 6
ModeAbsShort == 0
ModeAbsLong == 1
ModePCRelative == 2
ModePCIndex == 3
ModeImmediate == 4
\* cpu.Size
SizeInvalid == 0
SizeByte == 1
SizeWord == 2
SizeLong == 3
OPLEA == 16832
OPNOP == 20081
OPBRA == 24576
OPDBcc == 20680
OPJMP == 20160
OPJSR == 20096
\* the sizing loop gives up when a changing pass has index > PassCap
PassCap == 10

\* a label that is not in the label table
NoLabel == -1

\* ------------------------------------------------------- integer conversions
\* The code's addresses are uint32 and its offsets int32.  TLC's integers end
\* at 2^31 - 1, so the model wraps addresses at 2^30 instead of 2^32: every
\* address of the model is below 2^17, and the one difference that can wrap
\* (outputPos = pc - baseAddress after an org below the base) is only read
\* modulo 2.
AddrModulus == 16384 * 65536
\* uint32(x)
U32(x) == x % AddrModulus
\* uint16(x)
U16(x) == x % 65536
\* int32(x): the two's complement reading of the low bits
ToInt32(x) == IF U32(x) >= AddrModulus \div 2 THEN U32(x) - AddrModulus ELSE U32(x)
\* the signed reading of a 16-bit and of an 8-bit field
Signed16(w) == IF w >= 32768 THEN w - 65536 ELSE w
Signed8(b) == IF b >= 128 THEN b - 256 ELSE b

\* ------------------------------------------------------------------- inputs
LabelNames == {"a", "b"}
BaseAddresses == {0, 1}
OrgAddresses == {1}
DcCounts == {0, 3}
DsCounts == {1, 32764, 32766}

\* parseOperand results for the operand texts the model uses
OpBare(l) == [mode |-> ModeOther, reg |-> RegLabel, raw |-> l, label |-> l, ext |-> <<>>]
OpPCRel(l) == [mode |-> ModeOther, reg |-> ModePCRelative, raw |-> l \o "(pc)", label |-> l, ext |-> <<>>]
OpDataReg == [mode |-> ModeData, reg |-> 0, raw |-> "d0", label |-> "", ext |-> <<>>]
OpAddrReg == [mode |-> ModeAddr, reg |-> 0, raw |-> "a0", label |-> "", ext |-> <<>>]

\* parseLines results: one record shape for the three node types
LabelNode(l) ==
    [type |-> "label", label |-> l, dir |-> "", arg |-> 0, elem |-> 0,
     mn |-> "", msize |-> "invalid", ops |-> <<>>]
DirNode(d, x, e) ==
    [type |-> "directive", label |-> "", dir |-> d, arg |-> x, elem |-> e,
     mn |-> "", msize |-> "invalid", ops |-> <<>>]
InsNode(m, s, o) ==
    [type |-> "instruction", label |-> "", dir |-> "", arg |-> 0, elem |-> 0,
     mn |-> m, msize |-> s, ops |-> o]

NodeAlphabet ==
    {LabelNode(l) : l \in LabelNames}
    \cup {DirNode("org", x, 0) : x \in OrgAddresses}
    \cup {DirNode("even", 0, 0)}
    \cup {DirNode("dc", c, 1) : c \in DcCounts}
    \cup {DirNode("ds", c, 1) : c \in DsCounts}
    \cup {InsNode("nop", "invalid", <<>>)}
    \cup {InsNode("bra", s, <<OpBare("a")>>) : s \in {"invalid", "byte"}}
    \cup {InsNode("dbra", "invalid", <<OpDataReg, OpBare("a")>>)}
    \cup {InsNode("lea", "invalid", <<OpBare("a"), OpAddrReg>>)}
    \cup {InsNode("lea", "invalid", <<OpPCRel("a"), OpAddrReg>>)}
    \cup {InsNode("jmp", "invalid", <<OpBare("a")>>)}

Programs == UNION {[1..k -> NodeAlphabet] : k \in 0..MaxNodes}

\* -------------------------------------------------------------------- state
VARIABLES
    nodes,        \* the parsed node list (Type, Label, Mnemonic, Operands, Parts)
    baseAddress,  \* asm.baseAddress
    sizes,        \* n.Size of every node
    labels,       \* asm.labels: name -> address, NoLabel when absent
    pass,         \* the loop variable of the sizing loop
    passesRun,    \* number of runSizingPass calls made so far
    phase,        \* "sizing", "emit", "done" (out, nil) or "error" (nil, err)
    errKind,      \* which error Assemble returned
    out,          \* the returned output, as one record per node of the final pass
    outLen        \* len(out), the number of bytes returned

\* the state of a Disassemble call (disassembler/disassemble.go)
VARIABLES
    codeBytes,     \* code: the input bytes
    instructions,  \* the map of the linear sweep: address -> Instruction
    q,             \* the worklist of the control-flow trace (items, seen)
    dphase,        \* "idle", "sweep", "trace", "render" or "done"
    rpc,           \* pc of the render loop
    stringCounter, \* the counter of the string labels of the render loop
    rendered       \* what was written to the output, one record per item

\* the state of one codec call: an instruction is encoded by the assembler's
\* encoder, or raw bytes are given, and the bytes are decoded by decode
VARIABLES
    cin,           \* the instruction handed to the encoder
    cwords,        \* the bytes to decode
    cout,          \* what decode returned
    cphase         \* "idle", "input", "encoded", "decoded" or "rejected"

\* the state of the emulator (cpu/*.go): one CPU, a loaded program, and what
\* the last Execute call did
VARIABLES
    cpu,           \* the CPU struct: D, A, PC, SR, Mem, Running
    decoder,       \* which copy of Decode the package is built with
    loaded,        \* the program given to LoadCode: its address and bytes
    calls,         \* the number of Execute calls since the host last set Running
    prev,          \* the CPU struct when the last Execute call was made
    lastCall       \* the last Execute call: what it returned and what it touched

asmVars == <<nodes, baseAddress, sizes, labels, pass, passesRun, phase, errKind, out, outLen>>
disVars == <<codeBytes, instructions, q, dphase, rpc, stringCounter, rendered>>
codecVars == <<cin, cwords, cout, cphase>>
cpuVars == <<cpu, decoder, loaded, calls, prev, lastCall>>
vars == <<asmVars, disVars, codecVars, cpuVars>>

\* the programs are run one at a time: the state of a program that is
\* not running
AsmIdle ==
    /\ nodes = <<>>
    /\ baseAddress = 0
    /\ sizes = <<>>
    /\ labels = <<>>
    /\ pass = 0
    /\ passesRun = 0
    /\ phase = "idle"
    /\ errKind = "none"
    /\ out = <<>>
    /\ outLen = 0
DisIdle ==
    /\ codeBytes = <<>>
    /\ instructions = <<>>
    /\ q = [items |-> <<>>, seen |-> {}]
    /\ dphase = "idle"
    /\ rpc = 0
    /\ stringCounter = 1
    /\ rendered = <<>>
CodecIdle ==
    /\ cin = <<>>
    /\ cwords = <<>>
    /\ cout = <<>>
    /\ cphase = "idle"
CpuIdle ==
    /\ cpu = <<>>
    /\ decoder = "none"
    /\ loaded = <<>>
    /\ calls = 0
    /\ prev = <<>>
    /\ lastCall = <<>>

\* asm.labels[name] with its ok flag folded into NoLabel
Lookup(labs, name) == IF name \in DOMAIN labs THEN labs[name] ELSE NoLabel

\* -------------------------------------------------------------- directives
getElementSize(n) == n.elem

\* calculateDcSize: element count times element size, aligned to a word
calculateDcSize(n) ==
    LET raw == n.arg * getElementSize(n)
    IN  IF raw % 2 # 0 THEN raw + 1 ELSE raw

getDirectiveSize(n, pcv) ==
    CASE n.dir = "org" -> [err |-> FALSE, size |-> 0]
      [] n.dir = "even" -> [err |-> FALSE, size |-> IF pcv % 2 # 0 THEN 1 ELSE 0]
      [] n.dir = "dc" ->
            IF n.arg = 0 THEN [err |-> TRUE, size |-> 0]
            ELSE [err |-> FALSE, size |-> calculateDcSize(n)]
      [] n.dir = "ds" -> [err |-> FALSE, size |-> U32(U32(n.arg) * getElementSize(n))]
      [] OTHER -> [err |-> TRUE, size |-> 0]

\* assembleDc: the number of words produced (bytes padded to even length)
assembleDcWords(n) == (n.arg * getElementSize(n) + 1) \div 2

\* generateDirectiveCode: number of 16-bit words returned for a data directive
generateDirectiveCode(n) ==
    CASE n.dir = "dc" ->
            IF n.arg = 0 THEN [err |-> TRUE, nwords |-> 0]
            ELSE [err |-> FALSE, nwords |-> assembleDcWords(n)]
      [] n.dir = "ds" ->
            [err |-> FALSE, nwords |-> (U32(U32(n.arg) * getElementSize(n)) + 1) \div 2]
      [] OTHER -> [err |-> FALSE, nwords |-> 0]

\* cpu.WordsToBytes: two bytes per word
WordsToBytesLen(nwords) == nwords * 2

\* ------------------------------------------------------------ instructions
BccMnemonics ==
    {"bra", "bsr", "bhi", "bls", "bcc", "bcs", "bne", "beq",
     "bvc", "bvs", "bpl", "bmi", "bge", "blt", "bgt", "ble"}
\* the mnemonics with prefix "db" that the model uses
DbccMnemonics == {"dbra"}

isBranchMnemonic(val) == val \in BccMnemonics \/ val \in DbccMnemonics

canBePCRelative(mn) == mn \notin {"jmp", "jsr"}

\* offset := int32(target) - int32(pc+2)
BranchOffset(target, pcv) == ToInt32(ToInt32(target) - ToInt32(U32(pcv + 2)))

\* getSizeBra: the size of a branch node in the sizing pass
getSizeBra(n, labs, pcv) ==
    IF n.msize = "byte" THEN 2
    ELSE IF n.msize = "word" THEN 4
    ELSE IF Len(n.ops) = 0 THEN 2
    ELSE LET target == Lookup(labs, n.ops[1].raw)
         IN  IF target = NoLabel THEN 4
             ELSE IF BranchOffset(target, pcv) >= -128 /\ BranchOffset(target, pcv) <= 127
                  THEN 2
                  ELSE 4

\* a plausible slip: the final pass treats an undefined label like the sizing
\* pass does
UnresolvedOperand_NoError(op, finalPass) ==
    [err |-> FALSE, op |-> [op EXCEPT !.reg = ModeAbsLong, !.ext = <<0, 0>>]]

\* generateInstructionCode, lines 182-190: the operand's label is not in the
\* label table
UnresolvedOperand(op, finalPass) ==
    IF finalPass THEN [err |-> TRUE, op |-> op]
    ELSE [err |-> FALSE, op |-> [op EXCEPT !.reg = ModeAbsLong, !.ext = <<0, 0>>]]

\* a plausible slip: the rewrite of a bare label is left out
BareLabelOperand_Unchanged(mn, op, target, offset) == op

\* a plausible slip: a bare label is always encoded absolute long
BareLabelOperand_AlwaysLong(mn, op, target, offset) ==
    [op EXCEPT !.reg = ModeAbsLong, !.ext = <<U16(target \div 65536), U16(target)>>]

\* generateInstructionCode, lines 212-219: the mode chosen for a bare label
BareLabelOperand(mn, op, target, offset) ==
    IF canBePCRelative(mn) /\ offset >= -32768 /\ offset <= 32767
    THEN [op EXCEPT !.reg = ModePCRelative, !.ext = <<U16(offset)>>]
    ELSE [op EXCEPT !.reg = ModeAbsLong,
                    !.ext = <<U16(target \div 65536), U16(target)>>]

\* generateInstructionCode, lines 174-221: the label rewrite of one operand
ResolveOperand(n, op, pcv, finalPass, labs) ==
    LET isBareLabel == op.mode = ModeOther /\ op.reg = RegLabel
        isExplicitPCRel == op.mode = ModeOther /\ op.reg = ModePCRelative /\ op.label # ""
        target == Lookup(labs, op.label)
        offset == BranchOffset(target, pcv)
    IN  IF ~(isBareLabel \/ isExplicitPCRel) THEN [err |-> FALSE, op |-> op]
        ELSE IF target = NoLabel THEN UnresolvedOperand(op, finalPass)
        ELSE IF isBranchMnemonic(n.mn) THEN [err |-> FALSE, op |-> op]
        ELSE IF isExplicitPCRel THEN
            IF offset < -32768 \/ offset > 32767 THEN [err |-> TRUE, op |-> op]
            ELSE [err |-> FALSE, op |-> [op EXCEPT !.ext = <<U16(offset)>>]]
        ELSE [err |-> FALSE, op |-> BareLabelOperand(n.mn, op, target, offset)]

\* encodeEA: the 6-bit EA field and the extension words of an operand
encodeEA(op) ==
    IF op.mode \in {ModeData, ModeAddr, ModeAddrInd, ModeAddrPostInc, ModeAddrPreDec} THEN
        [err |-> FALSE, bits |-> op.mode * 8 + op.reg, ext |-> <<>>]
    ELSE IF op.mode \in {ModeAddrDisp, ModeAddrIndex} THEN
        [err |-> FALSE, bits |-> op.mode * 8 + op.reg, ext |-> op.ext]
    ELSE IF op.mode = ModeOther THEN
        IF op.reg \in {ModeAbsShort, ModeAbsLong, ModePCIndex, ModeImmediate} THEN
            [err |-> FALSE, bits |-> ModeOther * 8 + op.reg, ext |-> op.ext]
        ELSE IF op.reg = ModePCRelative THEN
            [err |-> FALSE, bits |-> ModeOther * 8 + ModePCRelative,
             ext |-> IF Len(op.ext) > 0 THEN <<op.ext[1]>> ELSE <<0>>]
        ELSE [err |-> TRUE, bits |-> 0, ext |-> <<>>]
    ELSE [err |-> TRUE, bits |-> 0, ext |-> <<>>]

assembleLea(operands) ==
    IF Len(operands) # 2 THEN [err |-> TRUE, words |-> <<>>]
    ELSE IF operands[2].mode # ModeAddr THEN [err |-> TRUE, words |-> <<>>]
    ELSE LET ea == encodeEA(operands[1])
         IN  IF ea.err THEN [err |-> TRUE, words |-> <<>>]
             ELSE [err |-> FALSE,
                   words |-> <<OPLEA + operands[2].reg * 512 + ea.bits>> \o ea.ext]

assembleJmpJsr(mn, operands, labs) ==
    IF Len(operands) # 1 THEN [err |-> TRUE, words |-> <<>>]
    ELSE LET target == Lookup(labs, operands[1].raw)
             ea == encodeEA(operands[1])
         IN  IF target # NoLabel THEN
                 [err |-> FALSE,
                  words |-> <<IF mn = "jmp" THEN 20217 ELSE 20153,
                              U16(target \div 65536), U16(target)>>]
             ELSE IF ea.err THEN [err |-> TRUE, words |-> <<>>]
             ELSE [err |-> FALSE,
                   words |-> <<(IF mn = "jmp" THEN OPJMP ELSE OPJSR) + ea.bits>> \o ea.ext]

\* a plausible slip: the short form is emitted without its range check
assembleBra_NoShortCheck(mn, operands, labs, pcv, size) ==
    IF Len(operands) # 1 THEN [err |-> TRUE, words |-> <<>>]
    ELSE LET target == Lookup(labs, operands[1].raw)
             offset == BranchOffset(target, pcv)
         IN  IF target = NoLabel THEN [err |-> TRUE, words |-> <<>>]
             ELSE IF size = 2 THEN [err |-> FALSE, words |-> <<OPBRA + (offset % 256)>>]
             ELSE IF offset < -32768 \/ offset > 32767 THEN [err |-> TRUE, words |-> <<>>]
             ELSE [err |-> FALSE, words |-> <<OPBRA, U16(offset)>>]

assembleBra(mn, operands, labs, pcv, size) ==
    IF Len(operands) # 1 THEN [err |-> TRUE, words |-> <<>>]
    ELSE LET target == Lookup(labs, operands[1].raw)
             offset == BranchOffset(target, pcv)
         IN  IF target = NoLabel THEN [err |-> TRUE, words |-> <<>>]
             ELSE IF size = 2 THEN
                 IF offset < -128 \/ offset > 127 THEN [err |-> TRUE, words |-> <<>>]
                 ELSE [err |-> FALSE, words |-> <<OPBRA + (offset % 256)>>]
             ELSE IF offset < -32768 \/ offset > 32767 THEN [err |-> TRUE, words |-> <<>>]
             ELSE [err |-> FALSE, words |-> <<OPBRA, U16(offset)>>]

assembleDbcc(mn, operands, labs, pcv) ==
    IF Len(operands) # 2 THEN [err |-> TRUE, words |-> <<>>]
    ELSE IF operands[1].mode # ModeData THEN [err |-> TRUE, words |-> <<>>]
    ELSE LET target == Lookup(labs, operands[2].raw)
             offset == BranchOffset(target, pcv)
         IN  IF target = NoLabel THEN [err |-> TRUE, words |-> <<>>]
             ELSE IF offset < -32768 \/ offset > 32767 THEN [err |-> TRUE, words |-> <<>>]
             ELSE [err |-> FALSE,
                   words |-> <<OPDBcc + 256 + operands[1].reg, U16(offset)>>]

\* the operands of n after the label rewrite loop
ResolvedOperands(n, pcv, finalPass, labs) ==
    [i \in DOMAIN n.ops |-> ResolveOperand(n, n.ops[i], pcv, finalPass, labs)]

\* generateInstructionCode: the words of n at address pcv, or an error
generateInstructionCode(n, pcv, finalPass, labs, nsize) ==
    LET res == ResolvedOperands(n, pcv, finalPass, labs)
        operands == [i \in DOMAIN n.ops |-> res[i].op]
    IN  IF \E i \in DOMAIN n.ops : res[i].err THEN [err |-> TRUE, words |-> <<>>]
        ELSE CASE n.mn = "lea" -> assembleLea(operands)
               [] n.mn = "nop" -> [err |-> FALSE, words |-> <<OPNOP>>]
               [] n.mn \in {"jmp", "jsr"} -> assembleJmpJsr(n.mn, operands, labs)
               [] n.mn \in BccMnemonics -> assembleBra(n.mn, operands, labs, pcv, nsize)
               [] n.mn \in DbccMnemonics -> assembleDbcc(n.mn, operands, labs, pcv)
               [] OTHER -> IF finalPass THEN [err |-> TRUE, words |-> <<>>]
                           ELSE [err |-> FALSE, words |-> <<0, 0, 0>>]

\* ------------------------------------------------------------- sizing pass
\* the size runSizingPass computes for an instruction node at address pcv
InstructionSize(n, pcv, labs, nsize) ==
    IF isBranchMnemonic(n.mn) THEN getSizeBra(n, labs, pcv)
    ELSE Len(generateInstructionCode(n, pcv, FALSE, labs, nsize).words) * 2

\* a plausible slip: org is sized like any directive and leaves the pc alone
OrgSeed_KeepPC(pcv, x) == pcv

\* pc = uint32(addr): the pc after an org directive
OrgSeed(pcv, x) == U32(x)

\* a plausible slip: the pass does not advance its pc past a sized node
AdvancePC_NoAdvance(pcv, size) == pcv

\* pc += size
AdvancePC(pcv, size) == U32(pcv + size)

\* runSizingPass from node i on: the label table, the node sizes and the
\* changed flag at the end of the walk, or the error that stopped it
RECURSIVE SizingWalk(_, _, _, _, _, _)
SizingWalk(i, ns, pcv, labs, sz, changed) ==
    IF i > Len(ns) THEN [err |-> FALSE, labels |-> labs, sizes |-> sz, changed |-> changed]
    ELSE IF ns[i].type = "label" THEN
        IF labs[ns[i].label] # pcv
        THEN SizingWalk(i + 1, ns, pcv, [labs EXCEPT ![ns[i].label] = pcv], sz, TRUE)
        ELSE SizingWalk(i + 1, ns, pcv, labs, sz, changed)
    ELSE IF ns[i].type = "directive" /\ ns[i].dir = "org" THEN
        SizingWalk(i + 1, ns, OrgSeed(pcv, ns[i].arg), labs, sz, changed)
    ELSE IF ns[i].type = "directive" /\ getDirectiveSize(ns[i], pcv).err THEN
        [err |-> TRUE, labels |-> labs, sizes |-> sz, changed |-> changed]
    ELSE LET size == IF ns[i].type = "directive"
                     THEN getDirectiveSize(ns[i], pcv).size
                     ELSE InstructionSize(ns[i], pcv, labs, sz[i])
         IN  SizingWalk(i + 1, ns, AdvancePC(pcv, size), labs,
                        [sz EXCEPT ![i] = size], changed \/ sz[i] # size)

runSizingPass == SizingWalk(1, nodes, baseAddress, labels, sizes, FALSE)

\* ------------------------------------------------------- final generation
\* the record the model keeps of one node of the final pass: the emission pc
\* on reaching the node, the bytes appended for it and, for an instruction,
\* its words
Item(i, pcv, nbytes, words) == [node |-> i, pc |-> pcv, len |-> nbytes, words |-> words]

\* the number of bytes an `even` directive appends at output position outputPos
EvenPadding(outputPos) == IF outputPos % 2 # 0 THEN 1 ELSE 0

\* the final code generation loop of Assemble from node i on: the per-node
\* records, the byte count and the final pc, or the error that made Assemble
\* return nil
RECURSIVE EmitWalk(_, _, _, _, _, _, _)
EmitWalk(i, ns, labs, pcv, outputPos, items, n) ==
    IF i > Len(ns) THEN [err |-> FALSE, items |-> items, len |-> n, pc |-> pcv]
    ELSE IF ns[i].type = "label" THEN
        EmitWalk(i + 1, ns, labs, pcv, outputPos, Append(items, Item(i, pcv, 0, <<>>)), n)
    ELSE IF ns[i].type = "directive" /\ ns[i].dir = "org" THEN
        EmitWalk(i + 1, ns, labs, OrgSeed(pcv, ns[i].arg),
                 U32(OrgSeed(pcv, ns[i].arg) - baseAddress),
                 Append(items, Item(i, pcv, 0, <<>>)), n)
    ELSE IF ns[i].type = "directive" /\ ns[i].dir = "even" THEN
        EmitWalk(i + 1, ns, labs, U32(pcv + EvenPadding(outputPos)),
                 U32(outputPos + EvenPadding(outputPos)),
                 Append(items, Item(i, pcv, EvenPadding(outputPos), <<>>)),
                 n + EvenPadding(outputPos))
    ELSE IF ns[i].type = "directive" THEN
        LET code == generateDirectiveCode(ns[i])
            nbytes == WordsToBytesLen(code.nwords)
        IN  IF code.err THEN [err |-> TRUE, items |-> <<>>, len |-> 0, pc |-> pcv]
            ELSE EmitWalk(i + 1, ns, labs, U32(pcv + nbytes), U32(outputPos + nbytes),
                          Append(items, Item(i, pcv, nbytes, <<>>)), n + nbytes)
    ELSE
        LET code == generateInstructionCode(ns[i], pcv, TRUE, labs, sizes[i])
            nbytes == WordsToBytesLen(Len(code.words))
        IN  IF code.err THEN [err |-> TRUE, items |-> <<>>, len |-> 0, pc |-> pcv]
            ELSE EmitWalk(i + 1, ns, labs, U32(pcv + nbytes), U32(outputPos + nbytes),
                          Append(items, Item(i, pcv, nbytes, code.words)), n + nbytes)

FinalGeneration == EmitWalk(1, nodes, labels, baseAddress, 0, <<>>, 0)

\* ------------------------------------------------------------------ actions
Init ==
    /\ nodes \in Programs
    /\ baseAddress \in BaseAddresses
    /\ sizes = [i \in 1..Len(nodes) |-> 0]
    /\ labels = [l \in LabelNames |-> NoLabel]
    /\ pass = 0
    /\ passesRun = 0
    /\ phase = "sizing"
    /\ errKind = "none"
    /\ out = <<>>
    /\ outLen = 0
    /\ DisIdle
    /\ CodecIdle
    /\ CpuIdle

\* a sizing pass that changed something, below the cap: loop again
SizingPassChanged ==
    /\ phase = "sizing"
    /\ LET r == runSizingPass
       IN  /\ ~r.err
           /\ r.changed
           /\ ~(pass > PassCap)
           /\ labels' = r.labels
           /\ sizes' = r.sizes
    /\ pass' = pass + 1
    /\ passesRun' = passesRun + 1
    /\ UNCHANGED <<nodes, baseAddress, phase, errKind, out, outLen>>
    /\ UNCHANGED <<disVars, codecVars, cpuVars>>

\* a sizing pass that changed nothing: leave the loop
SizingPassStable ==
    /\ phase = "sizing"
    /\ LET r == runSizingPass
       IN  /\ ~r.err
           /\ ~r.changed
           /\ labels' = r.labels
           /\ sizes' = r.sizes
    /\ passesRun' = passesRun + 1
    /\ phase' = "emit"
    /\ UNCHANGED <<nodes, baseAddress, pass, errKind, out, outLen>>
    /\ UNCHANGED <<disVars, codecVars, cpuVars>>

\* a sizing pass that returned an error: "pass N failed"
SizingPassFailed ==
    /\ phase = "sizing"
    /\ LET r == runSizingPass
       IN  /\ r.err
           /\ labels' = r.labels
           /\ sizes' = r.sizes
    /\ passesRun' = passesRun + 1
    /\ phase' = "error"
    /\ errKind' = "pass"
    /\ UNCHANGED <<nodes, baseAddress, pass, out, outLen>>
    /\ UNCHANGED <<disVars, codecVars, cpuVars>>

\* a sizing pass that changed something past the cap:
\* "failed to stabilize label addresses after 10 passes"
SizingNotStabilized ==
    /\ phase = "sizing"
    /\ LET r == runSizingPass
       IN  /\ ~r.err
           /\ r.changed
           /\ pass > PassCap
           /\ labels' = r.labels
           /\ sizes' = r.sizes
    /\ passesRun' = passesRun + 1
    /\ phase' = "error"
    /\ errKind' = "stabilize"
    /\ UNCHANGED <<nodes, baseAddress, pass, out, outLen>>
    /\ UNCHANGED <<disVars, codecVars, cpuVars>>

\* the final code generation pass succeeds: Assemble returns (out, nil)
EmitDone ==
    /\ phase = "emit"
    /\ LET r == FinalGeneration
       IN  /\ ~r.err
           /\ out' = r.items
           /\ outLen' = r.len
    /\ phase' = "done"
    /\ UNCHANGED <<nodes, baseAddress, sizes, labels, pass, passesRun, errKind>>
    /\ UNCHANGED <<disVars, codecVars, cpuVars>>

\* the final code generation pass fails: Assemble returns (nil, err)
EmitFailed ==
    /\ phase = "emit"
    /\ FinalGeneration.err
    /\ out' = <<>>
    /\ outLen' = 0
    /\ phase' = "error"
    /\ errKind' = "final"
    /\ UNCHANGED <<nodes, baseAddress, sizes, labels, pass, passesRun>>
    /\ UNCHANGED <<disVars, codecVars, cpuVars>>

Next ==
    \/ SizingPassChanged
    \/ SizingPassStable
    \/ SizingPassFailed
    \/ SizingNotStabilized
    \/ EmitDone
    \/ EmitFailed

Spec == Init /\ [][Next]_vars

\* ------------------------------------------------------------ claim helpers
\* the sizing loop was left because a pass made no change
Stable == phase \in {"emit", "done"} \/ (phase = "error" /\ errKind = "final")

RECURSIVE SumSizes(_, _, _)
SumSizes(sz, lo, hi) == IF lo > hi THEN 0 ELSE sz[lo] + SumSizes(sz, lo + 1, hi)

IsOrg(n) == n.type = "directive" /\ n.dir = "org"
IsEven(n) == n.type = "directive" /\ n.dir = "even"

\* index of the last org node before node i, 0 when there is none
LastOrgBefore(i) ==
    IF \E j \in 1..(i - 1) : IsOrg(nodes[j])
    THEN CHOOSE j \in 1..(i - 1) :
            IsOrg(nodes[j]) /\ \A k \in (j + 1)..(i - 1) : ~IsOrg(nodes[k])
    ELSE 0

\* the address the pc was last seeded with before node i
SegmentBase(i) ==
    IF LastOrgBefore(i) = 0 THEN baseAddress ELSE U32(nodes[LastOrgBefore(i)].arg)

LabelNodes == {i \in 1..Len(nodes) : nodes[i].type = "label"}

\* ------------------------------------------------------------------ C1
\* C1 as stated: when the sizing loop stops because a pass made no change,
\* every label's address is the base address plus the sizes of all nodes
\* that precede its label node.
C1_Original ==
    Stable =>
        \A i \in LabelNodes :
            labels[nodes[i].label] = U32(baseAddress + SumSizes(sizes, 1, i - 1))

\* C1 amended: when the sizing loop stops because a pass made no change,
\* every label's address is the address the pc was last seeded with before
\* the label node (the last preceding org's address, or the base address when
\* no org precedes it) plus the sizes of the nodes between that point and the
\* label node.
C1_LabelIsSeedPlusSizes ==
    Stable =>
        \A i \in LabelNodes :
            labels[nodes[i].label] =
                U32(SegmentBase(i) + SumSizes(sizes, LastOrgBefore(i) + 1, i - 1))

\* a stable state with a label that follows an org and a node of non-zero size
C1_Witness ==
    /\ Stable
    /\ \E i \in LabelNodes :
        /\ LastOrgBefore(i) > 0
        /\ SumSizes(sizes, LastOrgBefore(i) + 1, i - 1) > 0

\* ------------------------------------------------------------------ C2
\* C2 as stated: once the first sizing pass has run, no later sizing pass
\* assigns a node a larger size than the node had before that pass.
C2_Original ==
    [][(phase = "sizing" /\ passesRun >= 1) =>
            \A i \in 1..Len(nodes) : sizes'[i] <= sizes[i]]_vars

\* ------------------------------------------------------------------ C3
\* C3 as stated: for every source that parses the sizing loop converges, so
\* Assemble never returns the "failed to stabilize label addresses" error.
C3_Original == errKind # "stabilize"

\* ------------------------------------------------------------------ C4
\* C4 as stated: Assemble runs at most 10 sizing passes.
C4_Original == passesRun <= 10

\* ------------------------------------------------- emitted displacements
IsBcc(n) == n.type = "instruction" /\ n.mn \in BccMnemonics
IsDbcc(n) == n.type = "instruction" /\ n.mn \in DbccMnemonics
IsExplicitPCRel(op) == op.mode = ModeOther /\ op.reg = ModePCRelative /\ op.label # ""
IsBareLabel(op) == op.mode = ModeOther /\ op.reg = RegLabel
HasPCRelOperand(n) ==
    n.type = "instruction" /\ ~IsBcc(n) /\ ~IsDbcc(n)
        /\ Len(n.ops) >= 1 /\ IsExplicitPCRel(n.ops[1])

\* the label a node's displacement refers to
DispLabel(n) == IF IsDbcc(n) THEN n.ops[2].label ELSE n.ops[1].label

\* the nodes that are emitted with a displacement
DispNodes ==
    {i \in 1..Len(nodes) :
        \/ IsBcc(nodes[i]) /\ Len(nodes[i].ops) = 1
        \/ IsDbcc(nodes[i]) /\ Len(nodes[i].ops) = 2
        \/ HasPCRelOperand(nodes[i])}

\* the displacement field of emitted words, read as a signed number: the low
\* byte of a one-word branch, else the extension word
WrittenDisp(n, words) ==
    IF IsBcc(n) /\ Len(words) = 1 THEN Signed8(words[1] % 256) ELSE Signed16(words[2])

\* the final pass over the nodes before node i
EmitPrefix(i) == EmitWalk(1, SubSeq(nodes, 1, i - 1), labels, baseAddress, 0, <<>>, 0)

\* ------------------------------------------------------------------ C5
\* C5 as stated: in the emitted bytes every displacement written for a
\* label(pc) operand or a branch equals target - (pc + 2), where pc is the
\* address the instruction is emitted at and target the address the node
\* following the label is emitted at.
C5_Original ==
    phase = "done" =>
        \A i \in DispNodes : \A j \in LabelNodes :
            nodes[j].label = DispLabel(nodes[i]) =>
                WrittenDisp(nodes[i], out[i].words) = out[j].pc - (out[i].pc + 2)

\* ------------------------------------------------------------------ C6
\* the instruction nodes with a bare-label operand
BareLabelNodes ==
    {i \in 1..Len(nodes) :
        nodes[i].type = "instruction"
            /\ \E k \in DOMAIN nodes[i].ops : IsBareLabel(nodes[i].ops[k])}
BareLabelOf(n) == n.ops[CHOOSE k \in DOMAIN n.ops : IsBareLabel(n.ops[k])].label

\* the EA field of an opword, and the two encodings of a label
EAField(opword) == opword % 64
EncodedPCRelative(words) ==
    Len(words) = 2 /\ EAField(words[1]) = ModeOther * 8 + ModePCRelative
EncodedAbsLong(words) ==
    Len(words) = 3 /\ EAField(words[1]) = ModeOther * 8 + ModeAbsLong

\* the encoding the claim requires of node i, emitted at out[i].pc
BareLabelEncoding(i) ==
    LET offset == labels[BareLabelOf(nodes[i])] - (out[i].pc + 2)
    IN  IF nodes[i].mn \in {"jmp", "jsr"} THEN EncodedAbsLong(out[i].words)
        ELSE IF offset >= -32768 /\ offset <= 32767
             THEN EncodedPCRelative(out[i].words)
             ELSE EncodedAbsLong(out[i].words)

HasUndefinedLabel ==
    \E i \in 1..Len(nodes) : \E k \in DOMAIN nodes[i].ops :
        /\ nodes[i].ops[k].label # ""
        /\ \A j \in LabelNodes : nodes[j].label # nodes[i].ops[k].label

\* C7: if an instruction operand or branch target names a label defined
\* nowhere in the source, Assemble does not return output: it ends in an
\* error and the returned bytes are empty.
C7_UndefinedLabelIsError ==
    HasUndefinedLabel =>
        /\ phase # "done"
        /\ out = <<>>
        /\ outLen = 0

\* the final pass stopped on an undefined label after a stable sizing
C7_Witness ==
    /\ HasUndefinedLabel
    /\ phase = "error"
    /\ errKind = "final"

\* ------------------------------------------------------------------ C8
\* C8: no branch is emitted with a truncated displacement: in returned output
\* a one-word branch has its offset label - (pc + 2) within -128..127, every
\* branch and DBcc has it within -32768..32767, and the written field is
\* that offset.
C8_NoTruncatedBranch ==
    phase = "done" =>
        \A i \in 1..Len(nodes) :
            (IsBcc(nodes[i]) \/ IsDbcc(nodes[i])) =>
                LET offset == labels[DispLabel(nodes[i])] - (out[i].pc + 2)
                IN  /\ Len(out[i].words) = 1 => (offset >= -128 /\ offset <= 127)
                    /\ offset >= -32768 /\ offset <= 32767
                    /\ WrittenDisp(nodes[i], out[i].words) = offset

\* Assemble returned an error on reaching a short branch whose offset is
\* outside -128..127
C8_Witness ==
    /\ phase = "error"
    /\ errKind = "final"
    /\ \E i \in 1..Len(nodes) :
        /\ IsBcc(nodes[i])
        /\ sizes[i] = 2
        /\ labels[DispLabel(nodes[i])] # NoLabel
        /\ ~EmitPrefix(i).err
        /\ labels[DispLabel(nodes[i])] - (EmitPrefix(i).pc + 2) \notin -128..127

\* ------------------------------------------------------------------ C9
\* C9 as stated: whenever Assemble succeeds the returned byte slice has even
\* length.
C9_Original == phase = "done" => outLen % 2 = 0

\* ------------------------------------------------------------------ C10
\* C10 as stated: in the final pass an `even` directive appends one byte when
\* the emission pc is odd and nothing when it is even, and the sizing pass
\* gave the directive that same size.
C10_Original ==
    phase = "done" =>
        \A i \in 1..Len(nodes) :
            IsEven(nodes[i]) =>
                /\ out[i].len = (IF out[i].pc % 2 = 1 THEN 1 ELSE 0)
                /\ sizes[i] = out[i].len

\* ------------------------------------------------------------------ C11
OrgNodes == {i \in 1..Len(nodes) : IsOrg(nodes[i])}

\* C11: an org directive appends no bytes to the output (the returned length
\* is the sum of what the other nodes appended), and once the sizing loop has
\* stopped on an unchanged pass every label defined after an org, up to the
\* next org, has the address X of that org plus the sizes of the nodes
\* between the org and the label.
C11_OrgReseedsLabels ==
    /\ phase = "done" =>
            /\ \A i \in OrgNodes : out[i].len = 0 /\ out[i].words = <<>>
            /\ outLen = SumSizes([i \in 1..Len(nodes) |->
                                    IF IsOrg(nodes[i]) THEN 0 ELSE out[i].len],
                                 1, Len(nodes))
    /\ Stable =>
            \A i \in LabelNodes :
                LastOrgBefore(i) > 0 =>
                    labels[nodes[i].label] =
                        U32(nodes[LastOrgBefore(i)].arg
                            + SumSizes(sizes, LastOrgBefore(i) + 1, i - 1))

\* returned output of a source whose org moved a label: the label's address
\* differs from base address plus preceding sizes, and bytes were emitted
C11_Witness ==
    /\ phase = "done"
    /\ outLen > 0
    /\ \E i \in LabelNodes :
        /\ LastOrgBefore(i) > 0
        /\ labels[nodes[i].label] # U32(baseAddress + SumSizes(sizes, 1, i - 1))

\* ------------------------------------------------------------------ C12
\* the final pass reaches the encoder call of instruction node i: no earlier
\* node and no operand of node i made Assemble return an error
ReachesEncoding(i) ==
    /\ nodes[i].type = "instruction"
    /\ ~EmitPrefix(i).err
    /\ \A k \in DOMAIN nodes[i].ops :
            ~ResolvedOperands(nodes[i], EmitPrefix(i).pc, TRUE, labels)[k].err

\* the operands generateInstructionCode hands to the encoder of node i
EncoderOperands(i) ==
    [k \in DOMAIN nodes[i].ops |->
        ResolvedOperands(nodes[i], EmitPrefix(i).pc, TRUE, labels)[k].op]

\* C12 as stated: in the final pass no operand handed to an instruction's
\* encoder still carries the label sentinel (mode 7, register RegLabel).
C12_Original ==
    Stable =>
        \A i \in 1..Len(nodes) :
            ReachesEncoding(i) =>
                \A k \in DOMAIN nodes[i].ops : ~IsBareLabel(EncoderOperands(i)[k])

\* C12 amended: in the final pass no operand handed to the encoder of an
\* instruction other than a branch (bra/bsr/Bcc/DBcc) still carries the label
\* sentinel: each bare-label operand has become PC-relative or absolute long.
\* A branch's operand is handed over unchanged.
C12_NoSentinelOutsideBranches ==
    Stable =>
        \A i \in 1..Len(nodes) :
            (ReachesEncoding(i) /\ ~isBranchMnemonic(nodes[i].mn)) =>
                \A k \in DOMAIN nodes[i].ops :
                    /\ ~IsBareLabel(EncoderOperands(i)[k])
                    /\ IsBareLabel(nodes[i].ops[k]) =>
                            /\ EncoderOperands(i)[k].mode = ModeOther
                            /\ EncoderOperands(i)[k].reg \in {ModePCRelative, ModeAbsLong}

\* returned output holding a jmp whose bare label was rewritten
C12_Witness ==
    /\ phase = "done"
    /\ \E i \in BareLabelNodes :
        /\ nodes[i].mn = "jmp"
        /\ ReachesEncoding(i)
        /\ EncoderOperands(i)[1].reg = ModeAbsLong

\* ======================================================================
\* The instruction decoder of the disassembler (disassembler/*.go)
\* ======================================================================

\* ------------------------------------------------------------ bit fields
\* a & b on 16-bit values
RECURSIVE And16(_, _)
And16(a, b) ==
    IF a = 0 \/ b = 0 THEN 0
    ELSE (a % 2) * (b % 2) + 2 * And16(a \div 2, b \div 2)

\* a >> n
Shr(a, n) == a \div (2 ^ n)

\* ------------------------------------------------------- fmt.Sprintf verbs
HexDigits == <<"0", "1", "2", "3", "4", "5", "6", "7",
               "8", "9", "a", "b", "c", "d", "e", "f">>

\* %x of a value below 2^31
RECURSIVE Hex(_)
Hex(v) == IF v < 16 THEN HexDigits[v + 1] ELSE Hex(v \div 16) \o HexDigits[(v % 16) + 1]

\* %04x and %02x
Hex4(v) ==
    HexDigits[((v \div 4096) % 16) + 1] \o HexDigits[((v \div 256) % 16) + 1]
        \o HexDigits[((v \div 16) % 16) + 1] \o HexDigits[(v % 16) + 1]
Hex2(v) == HexDigits[((v \div 16) % 16) + 1] \o HexDigits[(v % 16) + 1]

\* %x of the 32-bit value hi * 65536 + lo
Hex32(hi, lo) == IF hi = 0 THEN Hex(lo) ELSE Hex(hi) \o Hex4(lo)

\* %d
Dec(v) == ToString(v)

\* the text decode returns for an opword it does not know
DcW(op) == [mn |-> "dc.w", ops |-> "0x" \o Hex4(op), used |-> 0, panic |-> FALSE]

formatDisp8(v) == IF v >= -9 /\ v <= 9 THEN Dec(v) ELSE "$" \o Hex(v % 256)
formatDisp16(v) == IF v >= -9 /\ v <= 9 THEN Dec(v) ELSE "$" \o Hex(v % 65536)
formatDisp(v) == IF v >= 0 THEN "+" \o Dec(v) ELSE Dec(v)

SizeSuffix(bits) ==
    CASE bits = 0 -> ".b"
      [] bits = 1 -> ".w"
      [] bits = 2 -> ".l"
      [] OTHER -> ""

\* ------------------------------------------------------ reads of the tail
\* code[pc], and binary.BigEndian.Uint16(code[pc:]) with Go's zero-based pc;
\* a read outside the slice makes the Go program panic
InRange(tail, pc, n) == pc >= 0 /\ pc + n <= Len(tail)
ByteAt(tail, pc) == IF InRange(tail, pc, 1) THEN tail[pc + 1] ELSE 0
Uint16At(tail, pc) == ByteAt(tail, pc) * 256 + ByteAt(tail, pc + 1)

\* what a decoder returns for an operand: text, bytes consumed, and whether
\* producing it read outside the tail
EAText(text, used, panic) == [text |-> text, used |-> used, panic |-> panic]

\* readImmediateBySize
readImmediateBySize(tail, pc, size) ==
    LET n == Len(tail)
        w == Signed16(Uint16At(tail, pc))
    IN  CASE size = 0 ->
                IF pc + 2 > n THEN EAText("#<trunc>", 0, FALSE)
                ELSE EAText("#" \o Dec(Signed8(ByteAt(tail, pc + 1))), 2, ~InRange(tail, pc + 1, 1))
          [] size = 1 ->
                IF pc + 2 > n THEN EAText("#<trunc>", 0, FALSE)
                ELSE IF w >= 0 /\ w <= 255 THEN EAText("#" \o Dec(w), 2, ~InRange(tail, pc, 2))
                ELSE EAText("#$" \o Hex(w % 65536), 2, ~InRange(tail, pc, 2))
          [] size = 2 ->
                IF pc + 4 > n THEN EAText("#<trunc>", 0, FALSE)
                ELSE EAText("#$" \o Hex32(Uint16At(tail, pc), Uint16At(tail, pc + 2)),
                            4, ~InRange(tail, pc, 4))
          [] OTHER -> EAText("#?", 0, FALSE)

\* the index register text of a brief extension word: "d3.w", "a1.l"
IndexText(ext) ==
    (IF And16(ext, 32768) # 0 THEN "a" ELSE "d") \o Dec(Shr(ext, 12) % 8) \o "."
        \o (IF And16(ext, 2048) # 0 THEN "l" ELSE "w")

\* a plausible slip: the displacement modes read their extension word without
\* looking at the length of the tail
DecodeEA_NoLengthCheck(ea, pc, tail, size) ==
    LET mode == Shr(ea, 3) % 8
        reg == ea % 8
    IN  IF mode = 5
        THEN EAText("(" \o formatDisp16(Signed16(Uint16At(tail, pc))) \o ",a" \o Dec(reg) \o ")",
                    2, ~InRange(tail, pc, 2))
        ELSE IF mode = 7 /\ reg = 1
        THEN EAText("$" \o Hex32(Uint16At(tail, pc), Uint16At(tail, pc + 2)) \o ".l",
                    4, ~InRange(tail, pc, 4))
        ELSE EAText("d" \o Dec(reg), 0, FALSE)

\* DecodeEA: the text of an effective address field and the bytes it consumed
DecodeEA(ea, pc, tail, size) ==
    LET mode == Shr(ea, 3) % 8
        reg == ea % 8
        ext == Uint16At(tail, pc)
        short == pc + 2 > Len(tail)
    IN  CASE mode = 0 -> EAText("d" \o Dec(reg), 0, FALSE)
          [] mode = 1 -> EAText("a" \o Dec(reg), 0, FALSE)
          [] mode = 2 -> EAText("(a" \o Dec(reg) \o ")", 0, FALSE)
          [] mode = 3 -> EAText("(a" \o Dec(reg) \o ")+", 0, FALSE)
          [] mode = 4 -> EAText("-(a" \o Dec(reg) \o ")", 0, FALSE)
          [] mode = 5 ->
                IF short THEN EAText("(?,a" \o Dec(reg) \o ")", 0, FALSE)
                ELSE EAText("(" \o formatDisp16(Signed16(ext)) \o ",a" \o Dec(reg) \o ")",
                            2, ~InRange(tail, pc, 2))
          [] mode = 6 ->
                IF short THEN EAText("(?,a" \o Dec(reg) \o ",x?)", 0, FALSE)
                ELSE EAText("(" \o formatDisp8(Signed8(ext % 256)) \o ",a" \o Dec(reg)
                                \o "," \o IndexText(ext) \o ")", 2, ~InRange(tail, pc, 2))
          [] mode = 7 /\ reg = 0 ->
                IF short THEN EAText("(?.w)", 0, FALSE)
                ELSE EAText("$" \o Hex(ext) \o ".w", 2, ~InRange(tail, pc, 2))
          [] mode = 7 /\ reg = 1 ->
                IF pc + 4 > Len(tail) THEN EAText("(?.l)", 0, FALSE)
                ELSE EAText("$" \o Hex32(ext, Uint16At(tail, pc + 2)) \o ".l", 4, ~InRange(tail, pc, 4))
          [] mode = 7 /\ reg = 2 ->
                IF short THEN EAText("(?,pc)", 0, FALSE)
                ELSE EAText("(" \o formatDisp16(Signed16(ext)) \o ",pc)", 2, ~InRange(tail, pc, 2))
          [] mode = 7 /\ reg = 3 ->
                IF short THEN EAText("(?,pc,xn)", 0, FALSE)
                ELSE EAText("(" \o formatDisp8(Signed8(ext % 256)) \o ",pc,"
                                \o IndexText(ext) \o ")", 2, ~InRange(tail, pc, 2))
          [] mode = 7 /\ reg = 4 -> readImmediateBySize(tail, pc, size)
          [] OTHER ->
                EAText("(ea mode=" \o Dec(mode) \o " reg=" \o Dec(reg) \o ")", 0, FALSE)

\* ------------------------------------------- opcodes of cpu/instructions.go
OPMOVEToUSP == 20064   \* 0x4E60
OPMOVEFromUSP == 20072   \* 0x4E68
OPRTS == 20085   \* 0x4E75
OPRTR == 20087   \* 0x4E77
OPRTE == 20083   \* 0x4E73
OPRESET == 20080   \* 0x4E70
OPTRAPV == 20086   \* 0x4E76
OPSTOP == 20082   \* 0x4E72
OPLINK == 20048   \* 0x4E50
OPUNLK == 20056   \* 0x4E58
OPTRAP == 20032   \* 0x4E40
OPILLEGAL == 19196   \* 0x4AFC
OPANDItoCCR == 572   \* 0x023C
OPORItoCCR == 60   \* 0x003C
OPEORItoCCR == 2620   \* 0x0A3C
OPANDItoSR == 636   \* 0x027C
OPORItoSR == 124   \* 0x007C
OPEORItoSR == 2684   \* 0x0A7C
OPORI == 0   \* 0x0000
OPANDI == 512   \* 0x0200
OPSUBI == 1024   \* 0x0400
OPADDI == 1536   \* 0x0600
OPEORI == 2560   \* 0x0A00
OPCMPI == 3072   \* 0x0C00
OPScc == 20672   \* 0x50C0
OPMOVEQ == 28672   \* 0x7000
OPMOVE == 0   \* 0x0000
OPADDQ == 20480   \* 0x5000
OPAND == 49152   \* 0xC000
OPMULU == 49344   \* 0xC0C0
OPMULS == 49600   \* 0xC1C0
OPOR == 32768   \* 0x8000
OPDIVU == 32960   \* 0x80C0
OPDIVS == 33216   \* 0x81C0
OPMOVEFromSR == 16576   \* 0x40C0
OPMOVEToCCR == 17600   \* 0x44C0
OPMOVEToSR == 18112   \* 0x46C0
OPNEGX == 16384   \* 0x4000
OPCLR == 16896   \* 0x4200
OPNEG == 17408   \* 0x4400
OPNOT == 17920   \* 0x4600
OPTAS == 19136   \* 0x4AC0
OPTST == 18944   \* 0x4A00
OPNBCD == 18432   \* 0x4800
OPSWAP == 18496   \* 0x4840
OPADDX == 53504   \* 0xD100
OPSUBX == 37120   \* 0x9100
OPShiftRotateBase == 57344   \* 0xE000
OPPEA == 18496   \* 0x4840
OPEXG == 49408   \* 0xC100
OPMOVEM == 18560   \* 0x4880
\* ------------------------------------------------------- the sub-decoders
\* the (mnemonic, operands, consumed) tuple a decoder returns; panic is set
\* when producing it read outside the tail
Ins(mn, ops, used, panic) == [mn |-> mn, ops |-> ops, used |-> used, panic |-> panic]

condName(cond) ==
    <<"t", "f", "hi", "ls", "cc", "cs", "ne", "eq",
      "vc", "vs", "pl", "mi", "ge", "lt", "gt", "le">>[cond + 1]

\* int32(binary.BigEndian.Uint32(code[pc:]))
Int32At(tail, pc) == Signed16(Uint16At(tail, pc)) * 65536 + Uint16At(tail, pc + 2)

decodeBranch(op, tail, pc) ==
    LET cond == Shr(op, 8) % 16
        name == CASE cond = 0 -> "bra"
                  [] cond = 1 -> "bsr"
                  [] OTHER -> "b" \o condName(cond)
        disp8 == op % 256
    IN  IF disp8 # 0 /\ disp8 # 255 THEN Ins(name, formatDisp(Signed8(disp8)), 0, FALSE)
        ELSE IF disp8 = 0 THEN
            IF pc + 2 > Len(tail) THEN Ins(name, "?", 0, FALSE)
            ELSE Ins(name, formatDisp(Signed16(Uint16At(tail, pc))), 2, ~InRange(tail, pc, 2))
        ELSE IF pc + 4 > Len(tail) THEN Ins(name, "?", 0, FALSE)
        ELSE Ins(name, formatDisp(Int32At(tail, pc)), 4, ~InRange(tail, pc, 4))

decodeJmpJsr(op, pc, tail) ==
    LET mn == IF And16(op, 64) = 0 THEN "jsr" ELSE "jmp"
        ea == op % 64
        size == IF Shr(ea, 3) = 7 /\ ea % 8 = 1 THEN 2 ELSE 1
        e == DecodeEA(ea, pc, tail, size)
    IN  Ins(mn, e.text, e.used, e.panic)

decodeScc(op, pc, tail) ==
    LET e == DecodeEA(op % 64, pc, tail, 0)
    IN  Ins("s" \o condName(Shr(op, 8) % 16), e.text, e.used, e.panic)

decodeDbcc(op, pc, tail) ==
    LET mn == "db" \o condName(Shr(op, 8) % 16)
        reg == op % 8
    IN  IF pc + 1 >= Len(tail) THEN Ins(mn, "d" \o Dec(reg) \o ",?", 0, FALSE)
        ELSE Ins(mn, "d" \o Dec(reg) \o "," \o formatDisp(Signed16(Uint16At(tail, pc))),
                 2, ~InRange(tail, pc, 2))

decodeMoveGeneral(op, pc, tail) ==
    LET sizeBits == Shr(op, 12) % 4
        mn == CASE sizeBits = 1 -> "move.b"
                [] sizeBits = 2 -> "move.l"
                [] OTHER -> "move.w"
        srcEA == (Shr(op, 3) % 8) * 8 + (op % 8)
        dstEA == (Shr(op, 6) % 8) * 8 + (Shr(op, 9) % 8)
        src == DecodeEA(srcEA, pc, tail, sizeBits)
        dst == DecodeEA(dstEA, pc + src.used, tail, sizeBits)
        dstMode == Shr(op, 6) % 8
    IN  IF sizeBits = 0 THEN DcW(op)
        ELSE Ins(IF dstMode = 1 THEN (IF sizeBits = 2 THEN "movea.l" ELSE "movea.w") ELSE mn,
                 src.text \o "," \o dst.text, src.used + dst.used, src.panic \/ dst.panic)

\* formatRegRange: the ranges of consecutive register numbers among regs, as
\* <<first, last>> pairs in ascending order
RECURSIVE RegRanges(_, _)
RegRanges(regs, from) ==
    IF \A r \in regs : r < from THEN <<>>
    ELSE LET start == CHOOSE r \in regs : r >= from /\ \A s \in regs : s >= from => r <= s
             end == CHOOSE e \in start..7 :
                        /\ \A k \in start..e : k \in regs
                        /\ (e + 1) \notin regs
         IN  <<<<start, end>>>> \o RegRanges(regs, end + 1)

RECURSIVE JoinParts(_)
JoinParts(parts) ==
    IF Len(parts) = 0 THEN ""
    ELSE IF Len(parts) = 1 THEN parts[1]
    ELSE parts[1] \o "/" \o JoinParts(Tail(parts))

formatRegRange(prefix, regs) ==
    LET rs == RegRanges(regs, 0)
    IN  [i \in 1..Len(rs) |->
            IF rs[i][1] = rs[i][2] THEN prefix \o Dec(rs[i][1])
            ELSE prefix \o Dec(rs[i][1]) \o "-" \o prefix \o Dec(rs[i][2])]

\* a plausible slip: the mask is read with the bit order of the
\* predecrement form
movemMaskToList_Reversed(mask) ==
    LET dRegs == {i \in 0..7 : And16(mask, 2 ^ (7 - i)) # 0}
        aRegs == {i \in 0..7 : And16(mask, 2 ^ (15 - i)) # 0}
    IN  JoinParts(formatRegRange("d", dRegs) \o formatRegRange("a", aRegs))

\* movemMaskToList: bits 0-7 name d0-d7, bits 8-15 name a0-a7
movemMaskToList(mask) ==
    LET dRegs == {i \in 0..7 : And16(mask, 2 ^ i) # 0}
        aRegs == {i \in 0..7 : And16(mask, 2 ^ (i + 8)) # 0}
    IN  JoinParts(formatRegRange("d", dRegs) \o formatRegRange("a", aRegs))

decodeMovem(op, pc, tail) ==
    LET isLoad == And16(op, 1024) # 0
        size == IF And16(op, 64) # 0 THEN ".l" ELSE ".w"
        e == DecodeEA(op % 64, pc + 2, tail, 0)
        regList == movemMaskToList(Uint16At(tail, pc))
    IN  IF pc + 2 > Len(tail) THEN Ins("movem" \o size, "?", 0, FALSE)
        ELSE IF isLoad
        THEN Ins("movem" \o size, e.text \o "," \o regList, e.used + 2,
                 e.panic \/ ~InRange(tail, pc, 2))
        ELSE Ins("movem" \o size, regList \o "," \o e.text, e.used + 2,
                 e.panic \/ ~InRange(tail, pc, 2))

decodeMovep(op, pc, tail) ==
    LET dataReg == Shr(op, 9) % 8
        addrReg == op % 8
        opmode == Shr(op, 6) % 8
        sizeStr == IF opmode \in {4, 6} THEN ".w" ELSE ".l"
        isMemToReg == opmode \in {4, 5}
        disp == Signed16(Uint16At(tail, pc))
    IN  IF opmode \notin {4, 5, 6, 7} THEN DcW(op)
        ELSE IF pc + 2 > Len(tail) THEN Ins("movep" \o sizeStr, "?", 0, FALSE)
        ELSE IF isMemToReg
        THEN Ins("movep" \o sizeStr,
                 "(" \o Dec(disp) \o ",a" \o Dec(addrReg) \o "),d" \o Dec(dataReg), 2, ~InRange(tail, pc, 2))
        ELSE Ins("movep" \o sizeStr,
                 "d" \o Dec(dataReg) \o ",(" \o Dec(disp) \o ",a" \o Dec(addrReg) \o ")", 2, ~InRange(tail, pc, 2))

decodeMoveSystemRegister(op, pc, tail) ==
    LET reg == op % 8
        e == DecodeEA(op % 64, pc, tail, 1)
        top == And16(op, 65472)
    IN  IF And16(op, 65520) = OPMOVEToUSP THEN
            IF And16(op, 8) # 0 THEN Ins("move.l", "usp,a" \o Dec(reg), 0, FALSE)
            ELSE Ins("move.l", "a" \o Dec(reg) \o ",usp", 0, FALSE)
        ELSE CASE top = OPMOVEFromSR -> Ins("move", "sr," \o e.text, e.used, e.panic)
               [] top = OPMOVEToCCR -> Ins("move", e.text \o ",ccr", e.used, e.panic)
               [] top = OPMOVEToSR -> Ins("move", e.text \o ",sr", e.used, e.panic)
               [] OTHER -> Ins("dc.w", "$" \o Hex4(op), 0, e.panic)

decodeImmediateLogical(op, pc, tail) ==
    LET sizeBits == Shr(op, 6) % 4
        top == And16(op, 65280)
        mn == CASE top = 0 -> "ori"
                [] top = 512 -> "andi"
                [] top = 1024 -> "subi"
                [] top = 1536 -> "addi"
                [] top = 2560 -> "eori"
                [] OTHER -> "cmpi"
        imm == readImmediateBySize(tail, pc, sizeBits)
        e == DecodeEA(op % 64, pc + imm.used, tail, sizeBits)
    IN  IF top \notin {0, 512, 1024, 1536, 2560, 3072} THEN DcW(op)
        ELSE Ins(mn \o SizeSuffix(sizeBits), imm.text \o "," \o e.text,
                 imm.used + e.used, imm.panic \/ e.panic)

decodeLogical(op, pc, tail) ==
    LET top == And16(op, 61440)
        mn == CASE top = OPAND -> "and"
                [] top = OPOR -> "or"
                [] OTHER -> "eor"
        size == Shr(op, 6) % 4
        dir == And16(op, 256) # 0
        reg == Shr(op, 9) % 8
        e == DecodeEA(op % 64, pc, tail, size)
    IN  IF top \notin {OPAND, OPOR, 45056} THEN DcW(op)
        ELSE IF dir
        THEN Ins(mn \o SizeSuffix(size), "d" \o Dec(reg) \o "," \o e.text, e.used, e.panic)
        ELSE Ins(mn \o SizeSuffix(size), e.text \o ",d" \o Dec(reg), e.used, e.panic)

decodeExg(op) ==
    LET regX == Shr(op, 9) % 8
        regY == op % 8
        opmode == Shr(op, 3) % 32
    IN  CASE opmode = 8 -> Ins("exg", "d" \o Dec(regX) \o ",d" \o Dec(regY), 0, FALSE)
          [] opmode = 9 -> Ins("exg", "a" \o Dec(regX) \o ",a" \o Dec(regY), 0, FALSE)
          [] opmode = 17 -> Ins("exg", "d" \o Dec(regX) \o ",a" \o Dec(regY), 0, FALSE)
          [] OTHER -> DcW(op)

decodeImmediateToSystemRegister(op, pc, tail) ==
    LET mn == CASE op \in {OPANDItoCCR, OPANDItoSR} -> "andi"
                [] op \in {OPORItoCCR, OPORItoSR} -> "ori"
                [] OTHER -> "eori"
        isCCR == op \in {OPANDItoCCR, OPORItoCCR, OPEORItoCCR}
        imm == readImmediateBySize(tail, pc, IF isCCR THEN 0 ELSE 1)
    IN  IF op \notin {OPANDItoCCR, OPORItoCCR, OPEORItoCCR, OPANDItoSR, OPORItoSR, OPEORItoSR}
        THEN Ins("dc.w", "$" \o Hex4(op), 0, FALSE)
        ELSE Ins(mn, imm.text \o "," \o (IF isCCR THEN "ccr" ELSE "sr"), imm.used, imm.panic)

decodeCmp(op, pc, tail) ==
    LET opmode == Shr(op, 6) % 8
        reg == Shr(op, 9) % 8
        sizeField == Shr(op, 6) % 4
        eorSize == opmode - 4
        eorEA == DecodeEA(op % 64, pc, tail, eorSize)
        isCmpa == opmode \in {3, 7}
        size == CASE opmode = 3 -> 1
                  [] opmode = 7 -> 2
                  [] OTHER -> sizeField
        e == DecodeEA(op % 64, pc, tail, size)
    IN  IF And16(op, 256) # 0 THEN
            IF opmode \notin {4, 5, 6} THEN DcW(op)
            ELSE Ins("eor" \o SizeSuffix(eorSize), "d" \o Dec(reg) \o "," \o eorEA.text,
                     eorEA.used, eorEA.panic)
        ELSE IF isCmpa
        THEN Ins("cmpa" \o SizeSuffix(size), e.text \o ",a" \o Dec(reg), e.used, e.panic)
        ELSE Ins("cmp" \o SizeSuffix(size), e.text \o ",d" \o Dec(reg), e.used, e.panic)

decodeChk(op, pc, tail) ==
    LET e == DecodeEA(op % 64, pc, tail, 1)
    IN  Ins("chk.w", e.text \o ",d" \o Dec(Shr(op, 9) % 8), e.used, e.panic)

decodeCmpm(op) ==
    Ins("cmpm" \o SizeSuffix(Shr(op, 6) % 4),
        "(a" \o Dec(op % 8) \o ")+,(a" \o Dec(Shr(op, 9) % 8) \o ")+", 0, FALSE)

decodeTas(op, pc, tail) ==
    LET e == DecodeEA(op % 64, pc, tail, 0)
    IN  Ins("tas", e.text, e.used, e.panic)

\* decodeAdd and decodeSub differ in the mnemonic only
decodeAddSub(base, op, pc, tail) ==
    LET size == Shr(op, 6) % 4
        sizeStr == SizeSuffix(size)
        dir == And16(op, 256) # 0
        reg == Shr(op, 9) % 8
        e == DecodeEA(op % 64, pc, tail, size)
    IN  IF And16(op, 448) = 448
        THEN Ins(base \o "a" \o sizeStr, e.text \o ",a" \o Dec(reg), e.used, e.panic)
        ELSE IF dir
        THEN Ins(base \o sizeStr, "d" \o Dec(reg) \o "," \o e.text, e.used, e.panic)
        ELSE Ins(base \o sizeStr, e.text \o ",d" \o Dec(reg), e.used, e.panic)

decodeAdd(op, pc, tail) == decodeAddSub("add", op, pc, tail)
decodeSub(op, pc, tail) == decodeAddSub("sub", op, pc, tail)

decodeAddxSubx(op, pc, tail) ==
    LET top == And16(op, 61696)
        base == IF top = OPADDX THEN "addx" ELSE "subx"
        sizeBits == Shr(op, 6) % 4
        mn == base \o SizeSuffix(sizeBits)
        src == op % 8
        dst == Shr(op, 9) % 8
        mode == Shr(op, 3) % 8
        e == DecodeEA(mode * 8 + src, pc, tail, sizeBits)
    IN  IF top \notin {OPADDX, OPSUBX} THEN DcW(op)
        ELSE CASE mode = 0 -> Ins(mn, "d" \o Dec(src) \o ",d" \o Dec(dst), 0, FALSE)
               [] mode = 4 -> Ins(mn, "-(a" \o Dec(src) \o "),-(a" \o Dec(dst) \o ")", 0, FALSE)
               [] OTHER -> Ins(mn, e.text \o ",d" \o Dec(dst), e.used, e.panic)

decodeMulDiv(op, pc, tail) ==
    LET opType == Shr(op, 11) % 32
        mn == CASE opType = 24 -> "mulu.w"
                [] opType = 25 -> "muls.w"
                [] opType = 16 -> "divu.w"
                [] OTHER -> "divs.w"
        e == DecodeEA(op % 64, pc, tail, 1)
    IN  IF opType \notin {24, 25, 16, 17} THEN DcW(op)
        ELSE Ins(mn, e.text \o ",d" \o Dec(Shr(op, 9) % 8), e.used, e.panic)

decodeBitManipulation(op, pc, tail) ==
    LET opType == Shr(op, 6) % 4
        mnBase == <<"btst", "bchg", "bclr", "bset">>[opType + 1]
        ea == op % 64
        size == IF Shr(ea, 3) = 0 THEN 2 ELSE 0
        sizeStr == IF Shr(ea, 3) = 0 THEN ".l" ELSE ".b"
        imm == readImmediateBySize(tail, pc, 0)
        immEA == DecodeEA(ea, pc + imm.used, tail, size)
        e == DecodeEA(ea, pc, tail, size)
    IN  IF And16(op, 65280) = 2048
        THEN Ins(mnBase, imm.text \o "," \o immEA.text, imm.used + immEA.used,
                 imm.panic \/ immEA.panic)
        ELSE Ins(mnBase \o sizeStr, "d" \o Dec(Shr(op, 9) % 8) \o "," \o e.text,
                 e.used, e.panic)

decodeSingleOperand(op, pc, tail) ==
    LET opType == Shr(op, 8) % 16
        reg == op % 8
        mn == CASE opType = 0 -> "negx"
                [] opType = 2 -> "clr"
                [] opType = 4 -> "neg"
                [] opType = 6 -> "not"
                [] opType = 10 -> "tst"
                [] OTHER -> ""
        sizeField == Shr(op, 6) % 4
        ea == op % 64
        sizeStr == IF mn = "clr" /\ Shr(ea, 3) % 8 = 2 THEN ".b" ELSE SizeSuffix(sizeField)
        nbcd == DecodeEA(ea, pc, tail, 0)
        e == DecodeEA(ea, pc, tail, sizeField)
        eaText == IF mn = "not" /\ ea = 17 THEN "(a1)+" ELSE e.text
    IN  IF opType \notin {0, 2, 4, 6, 8, 10} THEN DcW(op)
        ELSE IF opType = 8 /\ And16(op, 248) = 64 THEN Ins("swap", "d" \o Dec(reg), 0, FALSE)
        ELSE IF opType = 8 /\ And16(op, 248) = 128 THEN Ins("ext.w", "d" \o Dec(reg), 0, FALSE)
        ELSE IF opType = 8 /\ And16(op, 248) = 192 THEN Ins("ext.l", "d" \o Dec(reg), 0, FALSE)
        ELSE IF opType = 8 /\ And16(op, 192) = 0 THEN Ins("nbcd", nbcd.text, nbcd.used, nbcd.panic)
        ELSE Ins(mn \o sizeStr, eaText, e.used, e.panic)

decodeSwap(op) == Ins("swap", "d" \o Dec(op % 8), 0, FALSE)

decodeShiftRotateGeneric(op) ==
    LET isLeft == And16(op, 256) # 0
        opType == (Shr(op, 3) % 4) + (IF isLeft THEN 4 ELSE 0)
        mn == <<"asr", "lsr", "roxr", "ror", "asl", "lsl", "roxl", "rol">>[opType + 1]
                \o SizeSuffix(Shr(op, 6) % 4)
        isRegForm == And16(op, 32) = 0
        field == Shr(op, 9) % 8
        cnt == IF field = 0 THEN 8 ELSE field
        dstReg == op % 8
    IN  IF isRegForm THEN Ins(mn, "d" \o Dec(field) \o ",d" \o Dec(dstReg), 0, FALSE)
        ELSE Ins(mn, "#" \o Dec(cnt) \o ",d" \o Dec(dstReg), 0, FALSE)

\* the ADDQ/SUBQ case of decode
decodeAddqSubq(op, pc, tail) ==
    LET field == Shr(op, 9) % 8
        imm == IF field = 0 THEN 8 ELSE field
        size == Shr(op, 6) % 4
        e == DecodeEA(op % 64, pc, tail, size)
    IN  Ins((IF And16(op, 256) # 0 THEN "subq" ELSE "addq") \o SizeSuffix(size),
            "#" \o Dec(imm) \o "," \o e.text, e.used, e.panic)

\* ------------------------------------------------------------------ decode
\* the part of decode that handles the opwords 0x4Exx; matched is FALSE when
\* the opword falls through to the rest of decode
decode4E(op, pc, tail) ==
    LET imm == readImmediateBySize(tail, pc, 1)
        none == [matched |-> FALSE, ins |-> DcW(op)]
        Got(i) == [matched |-> TRUE, ins |-> i]
    IN  IF And16(op, 65280) # 19968 THEN none
        ELSE IF And16(op, 65520) = OPMOVEToUSP \/ And16(op, 65520) = OPMOVEFromUSP
        THEN Got(decodeMoveSystemRegister(op, pc, tail))
        ELSE IF op = OPNOP THEN Got(Ins("nop", "", 0, FALSE))
        ELSE IF op = OPRTS THEN Got(Ins("rts", "", 0, FALSE))
        ELSE IF op = OPRTR THEN Got(Ins("rtr", "", 0, FALSE))
        ELSE IF op = OPRTE THEN Got(Ins("rte", "", 0, FALSE))
        ELSE IF op = OPRESET THEN Got(Ins("reset", "", 0, FALSE))
        ELSE IF op = OPTRAPV THEN Got(Ins("trapv", "", 0, FALSE))
        ELSE IF op = OPSTOP THEN Got(Ins("stop", imm.text, imm.used, imm.panic))
        ELSE IF And16(op, 65528) = OPLINK
        THEN Got(Ins("link", "a" \o Dec(op % 8) \o "," \o imm.text, imm.used, imm.panic))
        ELSE IF And16(op, 65528) = OPUNLK THEN Got(Ins("unlk", "a" \o Dec(op % 8), 0, FALSE))
        ELSE IF And16(op, 65520) = OPTRAP THEN Got(Ins("trap", "#" \o Dec(op % 16), 0, FALSE))
        ELSE IF And16(op, 65472) = OPJSR THEN Got(decodeJmpJsr(op, pc, tail))
        ELSE IF And16(op, 65472) = OPJMP THEN Got(decodeJmpJsr(op, pc, tail))
        ELSE none

\* the AND/EXG/MUL case and the OR/DIV case of decode
decodeAndFamily(op, pc, tail) ==
    LET opmode == Shr(op, 3) % 32
    IN  IF And16(op, 61696) = 49408 /\ opmode \in {9, 17} THEN decodeExg(op)
        ELSE IF And16(op, 61696) = 49408 /\ opmode = 8 /\ Shr(op, 9) % 8 = op % 8
        THEN decodeExg(op)
        ELSE IF And16(op, 61632) = OPMULU \/ And16(op, 61632) = OPMULS
        THEN decodeMulDiv(op, pc, tail)
        ELSE decodeLogical(op, pc, tail)

decodeOrFamily(op, pc, tail) ==
    IF And16(op, 61632) = OPDIVU \/ And16(op, 61632) = OPDIVS
    THEN decodeMulDiv(op, pc, tail)
    ELSE decodeLogical(op, pc, tail)

\* the 0xBxxx case of decode
decodeCmpFamily(op, pc, tail) ==
    IF And16(op, 61752) = 45320 THEN decodeCmpm(op)
    ELSE IF And16(op, 256) = 0 /\ And16(op, 192) # 0 /\ And16(op, 504) = 384
    THEN decodeChk(op, pc, tail)
    ELSE decodeCmp(op, pc, tail)

\* decode: mnemonic, operand text and number of extension bytes consumed
decode(op, pc, tail) ==
    LET hi == And16(op, 61440)
        top8 == And16(op, 65280)
        top10 == And16(op, 65472)
        pea == DecodeEA(op % 64, pc, tail, 1)
        lea == DecodeEA(op % 64, pc, tail, 0)
    IN  IF decode4E(op, pc, tail).matched THEN decode4E(op, pc, tail).ins
        ELSE IF op = OPILLEGAL THEN Ins("illegal", "", 0, FALSE)
        ELSE IF op \in {OPANDItoCCR, OPORItoCCR, OPEORItoCCR, OPANDItoSR, OPORItoSR, OPEORItoSR}
        THEN decodeImmediateToSystemRegister(op, pc, tail)
        ELSE IF And16(op, 61752) = 264 THEN decodeMovep(op, pc, tail)
        ELSE IF top8 \in {OPORI, OPANDI, OPSUBI, OPADDI, OPEORI, OPCMPI}
        THEN decodeImmediateLogical(op, pc, tail)
        ELSE IF top8 = 2048 THEN decodeBitManipulation(op, pc, tail)
        ELSE IF hi = 0 /\ And16(op, 256) # 0 THEN decodeBitManipulation(op, pc, tail)
        ELSE IF And16(op, 61640) = OPDBcc THEN decodeDbcc(op, pc, tail)
        ELSE IF And16(op, 61632) = OPScc THEN decodeScc(op, pc, tail)
        ELSE IF hi = OPMOVEQ
        THEN Ins("moveq", "#" \o Dec(Signed8(op % 256)) \o ",d" \o Dec(Shr(op, 9) % 8), 0, FALSE)
        ELSE IF And16(op, 49152) = OPMOVE THEN decodeMoveGeneral(op, pc, tail)
        ELSE IF hi = OPBRA THEN decodeBranch(op, tail, pc)
        ELSE IF hi = OPADDQ THEN decodeAddqSubq(op, pc, tail)
        ELSE IF hi = OPAND THEN decodeAndFamily(op, pc, tail)
        ELSE IF hi = OPOR THEN decodeOrFamily(op, pc, tail)
        ELSE IF hi = 53248 THEN decodeAdd(op, pc, tail)
        ELSE IF hi = 36864 THEN decodeSub(op, pc, tail)
        ELSE IF hi = 45056 THEN decodeCmpFamily(op, pc, tail)
        ELSE IF top10 \in {OPMOVEFromSR, OPMOVEToCCR, OPMOVEToSR}
        THEN decodeMoveSystemRegister(op, pc, tail)
        ELSE IF top8 \in {OPNEGX, OPCLR, OPNEG, OPNOT} THEN decodeSingleOperand(op, pc, tail)
        ELSE IF top10 = OPTAS THEN decodeTas(op, pc, tail)
        ELSE IF top8 = OPTST /\ top10 # 19136 THEN decodeSingleOperand(op, pc, tail)
        ELSE IF top10 = OPNBCD THEN decodeSingleOperand(op, pc, tail)
        ELSE IF And16(op, 65528) = 18560 \/ And16(op, 65528) = 18624
        THEN decodeSingleOperand(op, pc, tail)
        ELSE IF And16(op, 65528) = OPSWAP THEN decodeSwap(op)
        ELSE IF And16(op, 64384) = 18560 THEN decodeMovem(op, pc, tail)
        ELSE IF And16(op, 61696) = OPADDX \/ And16(op, 61696) = OPSUBX
        THEN decodeAddxSubx(op, pc, tail)
        ELSE IF hi = OPShiftRotateBase THEN decodeShiftRotateGeneric(op)
        ELSE IF top10 = OPPEA THEN Ins("pea", pea.text, pea.used, pea.panic)
        ELSE IF And16(op, 61888) = OPLEA
        THEN Ins("lea", lea.text \o ",a" \o Dec(Shr(op, 9) % 8), lea.used, lea.panic)
        ELSE DcW(op)

\* ===================================================================
\* Disassemble (disassembler/disassemble.go): linear sweep, control-flow
\* trace, rendering
\* ===================================================================

\* ----------------------------------------- text parsers of the trace
CharAt(s, i) == IF i >= 1 /\ i <= Len(s) THEN SubSeq(s, i, i) ELSE ""
Rest(s, i) == IF i > Len(s) THEN "" ELSE SubSeq(s, i, Len(s))
\* strings.HasPrefix(s, p)
HasPrefix(s, p) == Len(s) >= Len(p) /\ SubSeq(s, 1, Len(p)) = p
UpperHexDigits == <<"0", "1", "2", "3", "4", "5", "6", "7",
                    "8", "9", "A", "B", "C", "D", "E", "F">>
isHexDigit(c) == \E d \in 1..16 : HexDigits[d] = c \/ UpperHexDigits[d] = c
DigitValue(c) == (CHOOSE d \in 1..16 : HexDigits[d] = c \/ UpperHexDigits[d] = c) - 1

\* the largest value the parsers below accept; the operand texts of the
\* decoders never hold a longer number
MaxInt32 == 2147483647

ParseOk(v) == [ok |-> TRUE, val |-> v]
ParseErr == [ok |-> FALSE, val |-> 0]

\* the digits of strconv.ParseInt: every character a digit of the base, at
\* least one of them, and the value within range
RECURSIVE ParseDigits(_, _, _)
ParseDigits(s, base, acc) ==
    IF s = "" THEN ParseOk(acc)
    ELSE IF ~isHexDigit(CharAt(s, 1)) \/ DigitValue(CharAt(s, 1)) >= base THEN ParseErr
    ELSE IF acc > (MaxInt32 - DigitValue(CharAt(s, 1))) \div base THEN ParseErr
    ELSE ParseDigits(Rest(s, 2), base, acc * base + DigitValue(CharAt(s, 1)))

\* strconv.ParseInt(s, base, _) for base 10 and 16, and for base 0, where
\* the prefix of the digits selects the base
ParseUnsigned(s, base) ==
    LET p == IF Len(s) >= 2 THEN SubSeq(s, 1, 2) ELSE s
    IN  IF s = "" THEN ParseErr
        ELSE IF base # 0 THEN ParseDigits(s, base, 0)
        ELSE IF p \in {"0x", "0X"} THEN
            (IF Len(s) = 2 THEN ParseErr ELSE ParseDigits(Rest(s, 3), 16, 0))
        ELSE IF p \in {"0b", "0B"} THEN
            (IF Len(s) = 2 THEN ParseErr ELSE ParseDigits(Rest(s, 3), 2, 0))
        ELSE IF p \in {"0o", "0O"} THEN
            (IF Len(s) = 2 THEN ParseErr ELSE ParseDigits(Rest(s, 3), 8, 0))
        ELSE IF CharAt(s, 1) = "0" /\ Len(s) > 1 THEN ParseDigits(Rest(s, 2), 8, 0)
        ELSE ParseDigits(s, 10, 0)

ParseInt(s, base) ==
    LET neg == s # "" /\ CharAt(s, 1) = "-"
        signed == s # "" /\ CharAt(s, 1) \in {"+", "-"}
        r == ParseUnsigned(IF signed THEN Rest(s, 2) ELSE s, base)
    IN  IF ~r.ok THEN ParseErr
        ELSE IF neg THEN ParseOk(0 - r.val) ELSE r

\* strings.Trim(s, cutset) and strings.TrimSpace(s)
RECURSIVE Trim(_, _)
Trim(s, cutset) ==
    IF s = "" THEN s
    ELSE IF CharAt(s, 1) \in cutset THEN Trim(Rest(s, 2), cutset)
    ELSE IF CharAt(s, Len(s)) \in cutset THEN Trim(SubSeq(s, 1, Len(s) - 1), cutset)
    ELSE s

TrimSpace(s) == Trim(s, {" "})

parseBranchOffset(tok0) ==
    LET tok == TrimSpace(tok0)
        num == ParseInt(IF CharAt(tok, 1) = "+" THEN Rest(tok, 2) ELSE tok, 0)
    IN  IF tok = "" THEN 0
        ELSE IF HasPrefix(tok, "loc_") THEN 0
        ELSE IF ~num.ok THEN 0
        ELSE num.val

\* strings.Index(s, c) + 1; 0 when c does not occur
RECURSIVE IndexFrom(_, _, _)
IndexFrom(s, c, i) ==
    IF i > Len(s) THEN 0
    ELSE IF CharAt(s, i) = c THEN i
    ELSE IndexFrom(s, c, i + 1)

\* the position after the hex digits that start at position j
RECURSIVE HexRunEnd(_, _)
HexRunEnd(s, j) ==
    IF j <= Len(s) /\ isHexDigit(CharAt(s, j)) THEN HexRunEnd(s, j + 1) ELSE j

parseAbsoluteAddress(op) ==
    LET i == IndexFrom(op, "$", 1)
        j == HexRunEnd(op, i + 1)
        hex == ParseInt(SubSeq(op, i + 1, j - 1), 16)
        dec == ParseInt(Trim(op, {" ", "(", ")"}), 10)
    IN  IF op = "" THEN -1
        ELSE IF i > 0 /\ j > i + 1 /\ hex.ok THEN hex.val
        ELSE IF dec.ok THEN dec.val
        ELSE -1

\* isBranchMnemonic of the disassembler (branch.go)
disIsBranchMnemonic(val) ==
    \/ val \in {"bra", "bsr", "bhi", "bls", "bcc", "bcs", "bne", "beq",
                "bvc", "bvs", "bpl", "bmi", "bge", "blt", "bgt", "ble"}
    \/ HasPrefix(val, "db")

isTerminal(mn) == mn \in {"rts", "rte", "rtr", "jmp", "bra"}

\* ------------------------------------------------------- the worklist
newQueue == [items |-> <<>>, seen |-> {}]

push(queue, addr0) ==
    LET addr == IF addr0 % 2 = 1 THEN addr0 - 1 ELSE addr0
    IN  IF addr \in queue.seen THEN queue
        ELSE [items |-> Append(queue.items, addr), seen |-> queue.seen \cup {addr}]

\* ------------------------------------------------------- linear sweep
\* the addresses the sweep visits: pc = 0, 2, ... while pc + 1 < len(code)
SweepAddrs(code) == {pc \in 0..Len(code) : pc % 2 = 0 /\ pc + 1 < Len(code)}

Word16(code, pc) == code[pc + 1] * 256 + code[pc + 2]

Extensions(code, pc) == IF pc + 2 < Len(code) THEN SubSeq(code, pc + 3, Len(code)) ELSE <<>>

Instruction(code, pc) ==
    LET d == decode(Word16(code, pc), 0, Extensions(code, pc))
    IN  [Address |-> pc, Op |-> Word16(code, pc), Mnemonic |-> d.mn,
         Operands |-> d.ops, Size |-> 2 + d.used, IsCode |-> FALSE]

LinearSweepMap(code) == [pc \in SweepAddrs(code) |-> Instruction(code, pc)]

\* ------------------------------------------------------- the trace
\* the pushes of one visited instruction, in the order of the code
TracePushes(queue, inst) ==
    LET q1 == IF ~isTerminal(inst.Mnemonic) THEN push(queue, inst.Address + inst.Size)
              ELSE queue
        isB == disIsBranchMnemonic(inst.Mnemonic)
        follow == isB \/ inst.Mnemonic \in {"jsr", "jmp"}
        target == inst.Address + 2 + parseBranchOffset(inst.Operands)
        q2 == IF follow /\ isB /\ target >= 0 THEN push(q1, target) ELSE q1
        abs == parseAbsoluteAddress(inst.Operands)
    IN  IF follow /\ abs >= 0 THEN push(q2, abs) ELSE q2

\* ------------------------------------------------------- data regions
isPrintableASCII(b) == b >= 32 /\ b <= 126

\* one item of the output: kind is "label", "insn", "string", "tag" or
\* "hex"; addr and size are the input bytes the item stands for, text is
\* the label or instruction text, bytes the data bytes of a data item
OutItem(kind, addr, size, text, bytes) ==
    [kind |-> kind, addr |-> addr, size |-> size, text |-> text, bytes |-> bytes]

bytesPerLine == 16

\* formatHexBytes: one dc.b line per 16 bytes
RECURSIVE formatHexBytes(_, _)
formatHexBytes(data, addr) ==
    IF Len(data) = 0 THEN <<>>
    ELSE LET n == IF Len(data) > bytesPerLine THEN bytesPerLine ELSE Len(data)
         IN  <<OutItem("hex", addr, n, "", SubSeq(data, 1, n))>>
                 \o formatHexBytes(SubSeq(data, n + 1, Len(data)), addr + n)

\* the first index >= i (zero-based) whose byte is printable / is not
RECURSIVE SkipNonPrintable(_, _)
SkipNonPrintable(data, i) ==
    IF i < Len(data) /\ ~isPrintableASCII(data[i + 1]) THEN SkipNonPrintable(data, i + 1) ELSE i
RECURSIVE SkipPrintable(_, _)
SkipPrintable(data, i) ==
    IF i < Len(data) /\ isPrintableASCII(data[i + 1]) THEN SkipPrintable(data, i + 1) ELSE i

minStrLen == 4

\* a plausible slip: the terminating NUL of a string is not consumed
AfterString_KeepNul(end) == end

\* where the scan continues after a NUL-terminated string
AfterString(end) == end + 1

\* analyzeAndFormatData from index i on: the items and the string counter
RECURSIVE AnalyzeFrom(_, _, _, _)
AnalyzeFrom(data, baseAddr, i, counter) ==
    LET n == Len(data)
        start == SkipNonPrintable(data, i)
        end == SkipPrintable(data, start)
        skipped == formatHexBytes(SubSeq(data, i + 1, start), baseAddr + i)
        run == SubSeq(data, start + 1, end)
        runAddr == baseAddr + start
        isNullTerminated == end < n /\ data[end + 1] = 0
        label == "string" \o Dec(counter) \o ":"
        Then(items, next, c) ==
            LET r == AnalyzeFrom(data, baseAddr, next, c)
            IN  [items |-> skipped \o items \o r.items, counter |-> r.counter]
    IN  IF i >= n THEN [items |-> <<>>, counter |-> counter]
        ELSE IF end <= start THEN Then(<<>>, start, counter)
        ELSE IF isNullTerminated /\ Len(run) >= minStrLen
        THEN Then(<<OutItem("string", runAddr, Len(run) + 1, label, run)>>,
                  AfterString(end), counter + 1)
        ELSE IF Len(run) = 4 /\ runAddr % 4 = 0
        THEN Then(<<OutItem("tag", runAddr, 4, label, run)>>, end, counter + 1)
        ELSE Then(formatHexBytes(run, runAddr), end, counter)

analyzeAndFormatData(data, baseAddr, counter) == AnalyzeFrom(data, baseAddr, 0, counter)

\* ------------------------------------------------------- rendering
codeAddrs == {a \in DOMAIN instructions : instructions[a].IsCode}

\* the end of the data block that starts at pc
RECURSIVE DataEnd(_)
DataEnd(pc) == IF pc < Len(codeBytes) /\ pc \notin codeAddrs THEN DataEnd(pc + 1) ELSE pc

\* %-8s
RECURSIVE PadRight(_, _)
PadRight(s, n) == IF Len(s) >= n THEN s ELSE PadRight(s \o " ", n)

InsnText(inst) ==
    IF inst.Operands # "" THEN "    " \o PadRight(inst.Mnemonic, 8) \o " " \o inst.Operands
    ELSE "    " \o inst.Mnemonic

\* the instruction at pc and all subsequent contiguous instructions
RECURSIVE CodeRun(_)
CodeRun(pc) ==
    IF pc < Len(codeBytes) /\ pc \in codeAddrs
    THEN LET r == CodeRun(pc + instructions[pc].Size)
         IN  [items |-> <<OutItem("insn", pc, instructions[pc].Size,
                               InsnText(instructions[pc]), <<>>)>> \o r.items,
              pc |-> r.pc]
    ELSE [items |-> <<>>, pc |-> pc]

\* %04X
Hex4Upper(v) ==
    UpperHexDigits[((v \div 4096) % 16) + 1] \o UpperHexDigits[((v \div 256) % 16) + 1]
        \o UpperHexDigits[((v \div 16) % 16) + 1] \o UpperHexDigits[(v % 16) + 1]

LabelText(addr) == "loc_" \o Hex4Upper(addr) \o ":"

\* ------------------------------------------------------- inputs
\* rts, bsr.s +2, dbf d0, a displacement word holding a NUL byte, and "AB"
DisWords == {20085, 24834, 20936, 6, 16706}
\* an input may end in a byte that is no whole word
TrailingBytes == {0}
MaxWords == 5

WordBytes(ws) ==
    [i \in 1..(2 * Len(ws)) |->
        IF i % 2 = 1 THEN ws[(i + 1) \div 2] \div 256 ELSE ws[i \div 2] % 256]

DisInputs ==
    LET whole == {WordBytes(ws) : ws \in UNION {[1..n -> DisWords] : n \in 0..MaxWords}}
    IN  whole \cup {Append(w, b) : w \in whole, b \in TrailingBytes}

\* ------------------------------------------------------- actions
DisInit ==
    /\ codeBytes \in DisInputs
    /\ instructions = <<>>
    /\ q = newQueue
    /\ dphase = "start"
    /\ rpc = 0
    /\ stringCounter = 1
    /\ rendered = <<>>
    /\ AsmIdle
    /\ CodecIdle
    /\ CpuIdle

\* if len(code) == 0 { return "", nil }
DisEmpty ==
    /\ dphase = "start"
    /\ Len(codeBytes) = 0
    /\ dphase' = "done"
    /\ UNCHANGED <<codeBytes, instructions, q, rpc, stringCounter, rendered>>
    /\ UNCHANGED <<asmVars, codecVars, cpuVars>>

\* the linear sweep, and the seeding of the worklist with address 0
LinearSweep ==
    /\ dphase = "start"
    /\ Len(codeBytes) > 0
    /\ instructions' = LinearSweepMap(codeBytes)
    /\ q' = push(newQueue, 0)
    /\ dphase' = "trace"
    /\ UNCHANGED <<codeBytes, rpc, stringCounter, rendered>>
    /\ UNCHANGED <<asmVars, codecVars, cpuVars>>

\* one iteration of the trace loop that marks an instruction
TraceVisit ==
    /\ dphase = "trace"
    /\ q.items # <<>>
    /\ LET addr == Head(q.items)
           popped == [q EXCEPT !.items = Tail(@)]
       IN  /\ addr \in DOMAIN instructions
           /\ ~instructions[addr].IsCode
           /\ instructions' = [instructions EXCEPT ![addr].IsCode = TRUE]
           /\ q' = TracePushes(popped, instructions[addr])
    /\ UNCHANGED <<codeBytes, dphase, rpc, stringCounter, rendered>>
    /\ UNCHANGED <<asmVars, codecVars, cpuVars>>

\* one iteration that pops an address outside the map or already marked
TraceSkip ==
    /\ dphase = "trace"
    /\ q.items # <<>>
    /\ LET addr == Head(q.items)
       IN  IF addr \in DOMAIN instructions THEN instructions[addr].IsCode ELSE TRUE
    /\ q' = [q EXCEPT !.items = Tail(@)]
    /\ UNCHANGED <<codeBytes, instructions, dphase, rpc, stringCounter, rendered>>
    /\ UNCHANGED <<asmVars, codecVars, cpuVars>>

\* the worklist is empty: rendering starts
TraceEnd ==
    /\ dphase = "trace"
    /\ q.items = <<>>
    /\ dphase' = "render"
    /\ UNCHANGED <<codeBytes, instructions, q, rpc, stringCounter, rendered>>
    /\ UNCHANGED <<asmVars, codecVars, cpuVars>>

\* one iteration of the render loop at a data address
RenderData ==
    /\ dphase = "render"
    /\ rpc < Len(codeBytes)
    /\ rpc \notin codeAddrs
    /\ LET dataEnd == DataEnd(rpc)
           r == analyzeAndFormatData(SubSeq(codeBytes, rpc + 1, dataEnd), rpc, stringCounter)
       IN  /\ rendered' = rendered \o r.items
           /\ stringCounter' = r.counter
           /\ rpc' = dataEnd
    /\ UNCHANGED <<codeBytes, instructions, q, dphase>>
    /\ UNCHANGED <<asmVars, codecVars, cpuVars>>

\* one iteration of the render loop at a code address
RenderCode ==
    /\ dphase = "render"
    /\ rpc < Len(codeBytes)
    /\ rpc \in codeAddrs
    /\ LET r == CodeRun(rpc)
       IN  /\ rendered' = rendered \o <<OutItem("label", rpc, 0, LabelText(rpc), <<>>)>> \o r.items
           /\ rpc' = r.pc
    /\ UNCHANGED <<codeBytes, instructions, q, dphase, stringCounter>>
    /\ UNCHANGED <<asmVars, codecVars, cpuVars>>

\* return out.String(), nil
RenderEnd ==
    /\ dphase = "render"
    /\ rpc >= Len(codeBytes)
    /\ dphase' = "done"
    /\ UNCHANGED <<codeBytes, instructions, q, rpc, stringCounter, rendered>>
    /\ UNCHANGED <<asmVars, codecVars, cpuVars>>

DisNext ==
    \/ DisEmpty
    \/ LinearSweep
    \/ TraceVisit
    \/ TraceSkip
    \/ TraceEnd
    \/ RenderData
    \/ RenderCode
    \/ RenderEnd

DisSpec == DisInit /\ [][DisNext]_vars


\* ===================================================================
\* Claims about Disassemble
\* ===================================================================

\* the rendered items that stand for the input byte at offset b
Covering(b) ==
    {k \in DOMAIN rendered :
        /\ rendered[k].kind # "label"
        /\ rendered[k].addr <= b
        /\ b < rendered[k].addr + rendered[k].size}

\* C13: the rendered output covers each input byte exactly once: when
\* Disassemble returns, every offset in [0, len) belongs to exactly one
\* rendered instruction, string or hex item; while rendering, the offsets
\* below the render pc are covered once and the others not yet
C13_EachByteOnce ==
    dphase \in {"render", "done"} =>
        /\ \A b \in 0..(Len(codeBytes) - 1) :
                Cardinality(Covering(b)) = (IF b < rpc THEN 1 ELSE 0)
        /\ \A k \in DOMAIN rendered :
                rendered[k].addr + rendered[k].size <= Len(codeBytes)
        /\ dphase = "done" => rpc = Len(codeBytes)

C13_Witness ==
    /\ dphase = "done"
    /\ \E k \in DOMAIN rendered : rendered[k].kind = "insn"
    /\ \E k \in DOMAIN rendered : rendered[k].kind = "string"
    /\ \E k \in DOMAIN rendered : rendered[k].kind = "hex"


\* the target of the control transfer decoded at address a, as an address:
\* address + 2 + displacement for the branches (disassemble.go:81-86, with
\* the displacement decodeBranch and decodeDbcc read), the absolute address
\* DecodeEA read for jmp and jsr; none when the extension was truncated
TransferTargets(a) ==
    LET inst == instructions[a]
        tail == Extensions(codeBytes, a)
        disp8 == inst.Op % 256
        ea == inst.Op % 64
    IN  IF HasPrefix(inst.Mnemonic, "db")
        THEN (IF inst.Size = 4 THEN {a + 2 + Signed16(Uint16At(tail, 0))} ELSE {})
        ELSE IF disIsBranchMnemonic(inst.Mnemonic)
        THEN (IF disp8 \notin {0, 255} THEN {a + 2 + Signed8(disp8)}
              ELSE IF disp8 = 0 /\ inst.Size = 4 THEN {a + 2 + Signed16(Uint16At(tail, 0))}
              ELSE IF disp8 = 255 /\ inst.Size = 6 THEN {a + 2 + Int32At(tail, 0)}
              ELSE {})
        ELSE IF inst.Mnemonic \in {"jmp", "jsr"}
        THEN (IF ea = 56 /\ inst.Size = 4 THEN {Uint16At(tail, 0)}
              ELSE IF ea = 57 /\ inst.Size = 6 /\ Uint16At(tail, 0) < 32768
              THEN {Uint16At(tail, 0) * 65536 + Uint16At(tail, 2)}
              ELSE {})
        ELSE {}

\* the instruction addresses control can pass to from the instruction at a
Successors(a) ==
    ((IF isTerminal(instructions[a].Mnemonic) THEN {} ELSE {a + instructions[a].Size})
        \cup TransferTargets(a)) \cap DOMAIN instructions

RECURSIVE ReachableFrom(_)
ReachableFrom(S) ==
    LET next == S \cup UNION {Successors(a) : a \in S}
    IN  IF next = S THEN S ELSE ReachableFrom(next)

\* the instruction addresses reachable from address 0
Reachable == ReachableFrom({0} \cap DOMAIN instructions)

\* C14: after the control-flow trace every address reachable from address 0
\* by fall-through and by the targets of decoded branches and of jmp/jsr is
\* marked as code
C14_Original ==
    dphase \in {"render", "done"} => \A a \in Reachable : instructions[a].IsCode


\* labelName (utility.go); Disassemble does not call it
labelName(addr, labelType) ==
    (IF labelType = "SubroutineEntry" THEN "sub_" ELSE "loc_") \o Hex4Upper(addr)

\* the code addresses that a jsr or bsr marked as code calls
CallTargets ==
    UNION {TransferTargets(a) :
            a \in {c \in codeAddrs : instructions[c].Mnemonic \in {"jsr", "bsr"}}}
        \cap codeAddrs

LabelsAt(a) == {rendered[k].text : k \in {j \in DOMAIN rendered :
                                            rendered[j].kind = "label" /\ rendered[j].addr = a}}

\* C15: an address that is the target of a jsr or bsr is labelled sub_XXXX
\* in the output and never loc_XXXX
C15_Original ==
    dphase = "done" =>
        \A a \in CallTargets :
            /\ labelName(a, "SubroutineEntry") \o ":" \in LabelsAt(a)
            /\ labelName(a, "JumpTarget") \o ":" \notin LabelsAt(a)


\* ===================================================================
\* The encoders of the assembler whose words the decoder is checked
\* against, and one decode call
\* ===================================================================

\* a | b on 16-bit values
Or16(a, b) == a + b - And16(a, b)

\* what an encoder returns: (words, nil) or (nil, err)
Encoded(words) == [err |-> FALSE, words |-> words]
EncodeError == [err |-> TRUE, words |-> <<>>]

\* operands as parseOperand builds them
OpDn(r) == [mode |-> ModeData, reg |-> r, raw |-> "d" \o Dec(r), label |-> "", ext |-> <<>>]
OpAn(r) == [mode |-> ModeAddr, reg |-> r, raw |-> "a" \o Dec(r), label |-> "", ext |-> <<>>]
OpInd(r) ==
    [mode |-> ModeAddrInd, reg |-> r, raw |-> "(a" \o Dec(r) \o ")", label |-> "", ext |-> <<>>]
OpPostInc(r) ==
    [mode |-> ModeAddrPostInc, reg |-> r, raw |-> "(a" \o Dec(r) \o ")+", label |-> "",
     ext |-> <<>>]
OpPreDec(r) ==
    [mode |-> ModeAddrPreDec, reg |-> r, raw |-> "-(a" \o Dec(r) \o ")", label |-> "",
     ext |-> <<>>]
OpDisp(d, r) ==
    [mode |-> ModeAddrDisp, reg |-> r, raw |-> Dec(d) \o "(a" \o Dec(r) \o ")", label |-> "",
     ext |-> <<U16(d)>>]
OpImm(v) ==
    [mode |-> ModeOther, reg |-> ModeImmediate, raw |-> "#" \o Dec(v), label |-> "",
     ext |-> <<U16(v)>>]
\* a register list; assembleMovem reads its Raw only
OpRegList(text) == [mode |-> ModeOther, reg |-> RegLabel, raw |-> text, label |-> "", ext |-> <<>>]

IsImmediate(o) == o.mode = ModeOther /\ o.reg = ModeImmediate

\* strings.ToLower for the letters of register names
UpperLetters == <<"A", "D">>
LowerLetters == <<"a", "d">>
ToLowerChar(c) ==
    IF \E i \in 1..Len(UpperLetters) : UpperLetters[i] = c
    THEN LowerLetters[CHOOSE i \in 1..Len(UpperLetters) : UpperLetters[i] = c]
    ELSE c
RECURSIVE ToLower(_)
ToLower(s) == IF s = "" THEN "" ELSE ToLowerChar(CharAt(s, 1)) \o ToLower(Rest(s, 2))

\* parseConstant for a number text with an optional # in front (no symbols,
\* no character literal)
parseConstant(s0) ==
    LET s == TrimSpace(IF HasPrefix(s0, "#") THEN Rest(s0, 2) ELSE s0)
    IN  IF HasPrefix(s, "$") THEN ParseInt(Rest(s, 2), 16)
        ELSE IF HasPrefix(ToLower(s), "0x") THEN ParseInt(Rest(s, 3), 16)
        ELSE IF HasPrefix(s, "%") THEN ParseInt(Rest(s, 2), 2)
        ELSE ParseInt(s, 10)

\* ------------------------------------------------------- shift / rotate
ShiftRotateType(mn) ==
    CASE mn = "asr" -> 0
      [] mn = "asl" -> 256
      [] mn = "lsr" -> 8
      [] mn = "lsl" -> 264
      [] mn = "ror" -> 24
      [] mn = "rol" -> 280
      [] mn = "roxr" -> 16
      [] mn = "roxl" -> 272
      [] OTHER -> 0

BitwiseSize == [s \in {SizeByte, SizeWord, SizeLong} |->
                    CASE s = SizeByte -> 0 [] s = SizeWord -> 64 [] OTHER -> 128]

setOpwordSize(opword, size0, sizeMap) ==
    LET size == IF size0 = SizeInvalid THEN SizeWord ELSE size0
    IN  IF size \notin DOMAIN sizeMap THEN [err |-> TRUE, opword |-> 0]
        ELSE [err |-> FALSE, opword |-> Or16(opword, sizeMap[size])]

assembleShiftRotate(mn, size, operands) ==
    LET base == Or16(OPShiftRotateBase, ShiftRotateType(mn))
        ea == encodeEA(operands[1])
        src == operands[1]
        dst == operands[2]
        sized == setOpwordSize(Or16(base, dst.reg), size, BitwiseSize)
        parsed == parseConstant(src.raw)
        count == IF parsed.ok THEN parsed.val ELSE 0
    IN  IF Len(operands) = 1 THEN
            IF size # SizeWord /\ size # SizeInvalid THEN EncodeError
            ELSE IF ea.err THEN EncodeError
            ELSE Encoded(<<Or16(Or16(base, 192), ea.bits)>> \o ea.ext)
        ELSE IF Len(operands) # 2 THEN EncodeError
        ELSE IF dst.mode # ModeData THEN EncodeError
        ELSE IF sized.err THEN EncodeError
        ELSE IF IsImmediate(src) THEN
            IF count < 1 \/ count > 8 THEN EncodeError
            ELSE Encoded(<<Or16(sized.opword, (count % 8) * 512)>>)
        ELSE IF src.mode = ModeData
        THEN Encoded(<<Or16(Or16(sized.opword, 32), src.reg * 512)>>)
        ELSE EncodeError

\* ------------------------------------------------------- movem
\* strings.Split(s, sep) for a one-character separator
RECURSIVE Split(_, _)
Split(s, sep) ==
    LET i == IndexFrom(s, sep, 1)
    IN  IF i = 0 THEN <<s>> ELSE <<SubSeq(s, 1, i - 1)>> \o Split(Rest(s, i + 1), sep)

Contains(s, c) == IndexFrom(s, c, 1) > 0

\* the index a trimmed, lower-cased register name stands for, given the
\* number parsed from the text after its first character
regIndexOf(reg, num) ==
    IF Len(reg) < 2 THEN ParseErr
    ELSE IF ~num.ok \/ num.val < 0 \/ num.val > 7 THEN ParseErr
    ELSE IF CharAt(reg, 1) = "d" THEN ParseOk(num.val)
    ELSE IF CharAt(reg, 1) = "a" THEN ParseOk(num.val + 8)
    ELSE ParseErr

parseRegIndexTrimmed(reg) == regIndexOf(reg, ParseInt(Rest(reg, 2), 10))

parseRegIndex(reg0) == parseRegIndexTrimmed(TrimSpace(ToLower(reg0)))

\* the registers from first to last, whichever is the larger
MovemSpan(first, last) ==
    IF ~first.ok \/ ~last.ok THEN [err |-> TRUE, regs |-> {}]
    ELSE IF first.val > last.val THEN [err |-> FALSE, regs |-> last.val..first.val]
    ELSE [err |-> FALSE, regs |-> first.val..last.val]

\* a part holding "-"; an empty side of the range (where the code indexes
\* an empty string) is reported as an error
MovemRange(rng) ==
    IF Len(rng) # 2 THEN [err |-> TRUE, regs |-> {}]
    ELSE IF rng[1] = "" \/ rng[2] = "" THEN [err |-> TRUE, regs |-> {}]
    ELSE IF CharAt(rng[1], 1) \in {"d", "a"} /\ CharAt(rng[2], 1) \in {"d", "a"}
            /\ CharAt(rng[1], 1) # CharAt(rng[2], 1)
    THEN [err |-> TRUE, regs |-> {}]
    ELSE MovemSpan(parseRegIndex(rng[1]), parseRegIndex(rng[2]))

MovemSingle(one) ==
    IF ~one.ok THEN [err |-> TRUE, regs |-> {}]
    ELSE [err |-> FALSE, regs |-> {one.val}]

MovemPartTrimmed(p) ==
    IF p = "" THEN [err |-> FALSE, regs |-> {}]
    ELSE IF Contains(p, "-") THEN MovemRange(Split(p, "-"))
    ELSE MovemSingle(parseRegIndex(p))

\* the registers one part of a register list names
MovemPart(p0) == MovemPartTrimmed(TrimSpace(ToLower(p0)))

RECURSIVE MaskOf(_)
MaskOf(regs) ==
    IF regs = {} THEN 0
    ELSE LET r == CHOOSE x \in regs : TRUE IN 2 ^ r + MaskOf(regs \ {r})

MovemMask(got) ==
    IF \E i \in DOMAIN got : got[i].err THEN [err |-> TRUE, mask |-> 0]
    ELSE [err |-> FALSE, mask |-> MaskOf(UNION {got[i].regs : i \in DOMAIN got})]

MovemParts(parts) == [i \in 1..Len(parts) |-> MovemPart(parts[i])]

parseMovemList(list) == MovemMask(MovemParts(Split(list, "/")))

\* bits.Reverse8
Reverse8(b) ==
    LET bit(i) == (b \div (2 ^ i)) % 2
    IN  bit(0) * 128 + bit(1) * 64 + bit(2) * 32 + bit(3) * 16
            + bit(4) * 8 + bit(5) * 4 + bit(6) * 2 + bit(7)

reverseMovemMask(mask) == Reverse8(mask \div 256) * 256 + Reverse8(mask % 256)

assembleMovemStore(src, dst, sz) ==
    LET list == parseMovemList(src.raw)
        opword == Or16(OPMOVEM, IF sz = SizeLong THEN 64 ELSE 0)
        ea == encodeEA(dst)
        regmask == IF dst.mode = ModeAddrPreDec THEN reverseMovemMask(list.mask)
                   ELSE list.mask
    IN  IF list.err \/ ea.err THEN EncodeError
        ELSE Encoded(<<Or16(opword, ea.bits), regmask>> \o ea.ext)

assembleMovemLoad(src, dst, sz) ==
    LET list == parseMovemList(dst.raw)
        opword == Or16(OPMOVEM, IF sz = SizeLong THEN 64 ELSE 0)
        ea == encodeEA(src)
    IN  IF list.err \/ ea.err THEN EncodeError
        ELSE Encoded(<<Or16(Or16(opword, 1024), ea.bits), list.mask>> \o ea.ext)

assembleMovem(size, operands) ==
    LET sz == IF size = SizeInvalid THEN SizeWord ELSE size
    IN  IF Len(operands) # 2 THEN EncodeError
        ELSE IF sz # SizeWord /\ sz # SizeLong THEN EncodeError
        ELSE IF Contains(operands[1].raw, "/")
        THEN assembleMovemStore(operands[1], operands[2], sz)
        ELSE IF Contains(operands[2].raw, "/")
        THEN assembleMovemLoad(operands[1], operands[2], sz)
        ELSE EncodeError

\* ------------------------------------------------------- exg, mul, div
assembleExg(operands) ==
    LET op1 == operands[1]
        op2 == operands[2]
        Word(kind, x, y) == Encoded(<<Or16(Or16(OPEXG, kind), Or16(x.reg * 512, y.reg))>>)
    IN  IF Len(operands) # 2 THEN EncodeError
        ELSE IF op1.mode = ModeData /\ op2.mode = ModeData THEN Word(64, op1, op2)
        ELSE IF op1.mode = ModeAddr /\ op2.mode = ModeAddr THEN Word(72, op1, op2)
        ELSE IF op1.mode = ModeData /\ op2.mode = ModeAddr THEN Word(136, op1, op2)
        ELSE IF op1.mode = ModeAddr /\ op2.mode = ModeData THEN Word(136, op2, op1)
        ELSE EncodeError

\* assembleMul and assembleDiv differ in the opcodes only
assembleMulDiv(signedOp, unsignedOp, isSigned, size, operands) ==
    LET src == operands[1]
        dst == operands[2]
        ea == encodeEA(src)
        opword == Or16(IF isSigned THEN signedOp ELSE unsignedOp, dst.reg * 512)
    IN  IF Len(operands) # 2 THEN EncodeError
        ELSE IF dst.mode # ModeData THEN EncodeError
        ELSE IF size # SizeWord /\ size # SizeInvalid THEN EncodeError
        ELSE IF ea.err THEN EncodeError
        ELSE Encoded(<<Or16(opword, ea.bits)>> \o ea.ext)

assembleMul(mn, size, operands) == assembleMulDiv(OPMULS, OPMULU, mn = "muls", size, operands)
assembleDiv(mn, size, operands) == assembleMulDiv(OPDIVS, OPDIVU, mn = "divs", size, operands)

\* ------------------------------------------------------- add, sub
OPSUBQ == 20736   \* 0x5100
OPADD == 53248   \* 0xD000
OPSUB == 36864   \* 0x9000

SizeBits == BitwiseSize

SizeBitsAddr == [s \in {SizeWord, SizeLong} |-> IF s = SizeWord THEN 192 ELSE 448]

\* maths.go: the source is an immediate 1..8 and the mnemonic is addq or subq
CanBeAddqSubq(mn, src) ==
    /\ ToLower(mn) \in {"addq", "subq"}
    /\ IsImmediate(src)
    /\ parseConstant(src.raw).ok
    /\ parseConstant(src.raw).val >= 1
    /\ parseConstant(src.raw).val <= 8

\* the other copy of the encoder: the source is an immediate 1..8
isQuickImmediate(src) ==
    /\ IsImmediate(src)
    /\ parseConstant(src.raw).ok
    /\ parseConstant(src.raw).val >= 1
    /\ parseConstant(src.raw).val <= 8

\* the ADDQ/SUBQ form
assembleQuick(opq, val, size, dst) ==
    LET sized == setOpwordSize(Or16(opq, (val % 8) * 512), size, SizeBits)
        ea == encodeEA(dst)
    IN  IF sized.err \/ ea.err THEN EncodeError
        ELSE Encoded(<<Or16(sized.opword, ea.bits)>> \o ea.ext)

\* the ADDI/SUBI form: the immediate follows the opword in the width of the
\* instruction size
assembleImmediate(opi, parsed, size, dst) ==
    LET sized == setOpwordSize(opi, size, SizeBits)
        ea == encodeEA(dst)
        immExt == IF size = SizeLong
                  THEN <<U16(parsed.val \div 65536), U16(parsed.val)>>
                  ELSE <<U16(parsed.val)>>
    IN  IF sized.err \/ ea.err \/ ~parsed.ok THEN EncodeError
        ELSE Encoded(<<Or16(sized.opword, ea.bits)>> \o immExt \o ea.ext)

\* the ADDA/SUBA form
assembleAddress(opa, size, src, dst) ==
    LET sized == setOpwordSize(opa, size, SizeBitsAddr)
        ea == encodeEA(src)
    IN  IF sized.err \/ ea.err THEN EncodeError
        ELSE Encoded(<<Or16(Or16(sized.opword, dst.reg * 512), ea.bits)>> \o ea.ext)

\* the standard form
assembleStandard(op, size, src, dst) ==
    LET sized == setOpwordSize(op, size, SizeBits)
        ea == IF dst.mode = ModeData THEN encodeEA(src) ELSE encodeEA(dst)
        regs == IF dst.mode = ModeData THEN dst.reg * 512 ELSE 256 + src.reg * 512
    IN  IF sized.err \/ ea.err THEN EncodeError
        ELSE Encoded(<<Or16(Or16(sized.opword, regs), ea.bits)>> \o ea.ext)

\* assembleAdd and assembleSub of maths.go (quick decided by CanBeAddqSubq)
\* and assembleAddSub of the other copy (quick decided by isQuickImmediate)
assembleAddSub(mn, size, operands, isAdd, quick) ==
    IF Len(operands) # 2 THEN EncodeError
    ELSE IF quick
    THEN assembleQuick(IF isAdd THEN OPADDQ ELSE OPSUBQ,
                       parseConstant(operands[1].raw).val, size, operands[2])
    ELSE IF IsImmediate(operands[1])
    THEN assembleImmediate(IF isAdd THEN OPADDI ELSE OPSUBI,
                           parseConstant(operands[1].raw), size, operands[2])
    ELSE IF operands[2].mode = ModeAddr
    THEN assembleAddress(IF isAdd THEN OPADD ELSE OPSUB, size, operands[1], operands[2])
    ELSE assembleStandard(IF isAdd THEN OPADD ELSE OPSUB, size, operands[1], operands[2])

\* assembleMath: the add family and the sub family
assembleMath(build, mn, size, operands) ==
    assembleAddSub(mn, size, operands, ToLower(mn) \in {"add", "adda", "addq", "addi"},
                   IF Len(operands) < 1 THEN FALSE
                   ELSE IF build = "CanBeAddqSubq" THEN CanBeAddqSubq(mn, operands[1])
                   ELSE isQuickImmediate(operands[1]))

\* ------------------------------------------------------- move
\* CanBeMoveq; the size of the mnemonic is not looked at
CanBeMoveq(mn, src, dst) ==
    /\ ToLower(mn) \in {"move", "moveq"}
    /\ dst.mode = ModeData
    /\ IsImmediate(src)
    /\ parseConstant(src.raw).ok
    /\ parseConstant(src.raw).val >= -128
    /\ parseConstant(src.raw).val <= 127

assembleMoveq(val, size, dst) ==
    IF size = SizeWord \/ size = SizeByte THEN EncodeError
    ELSE Encoded(<<Or16(Or16(OPMOVEQ, dst.reg * 512), U16(val) % 256)>>)

assembleMovea(size, src, dst) ==
    LET ea == encodeEA(src)
    IN  IF size \notin {SizeWord, SizeLong} THEN EncodeError
        ELSE IF ea.err THEN EncodeError
        ELSE Encoded(<<Or16(Or16(IF size = SizeWord THEN 12352 ELSE 8256, dst.reg * 512),
                            ea.bits)>> \o ea.ext)

assembleMoveGeneral(size, src, dst) ==
    LET s == encodeEA(src)
        d == encodeEA(dst)
        opword == Or16(OPMOVE, CASE size = SizeByte -> 4096
                                 [] size = SizeWord -> 12288
                                 [] OTHER -> 8192)
    IN  IF size \notin {SizeByte, SizeWord, SizeLong} THEN EncodeError
        ELSE IF s.err \/ d.err THEN EncodeError
        ELSE Encoded(<<Or16(Or16(opword, dst.reg * 512 + dst.mode * 64), s.bits)>>
                        \o s.ext \o d.ext)

\* assembleMove for operands that name no label
assembleMove(mn, size, operands) ==
    IF Len(operands) # 2 THEN EncodeError
    ELSE IF CanBeMoveq(mn, operands[1], operands[2])
    THEN assembleMoveq(parseConstant(operands[1].raw).val, size, operands[2])
    ELSE IF operands[2].mode = ModeAddr THEN assembleMovea(size, operands[1], operands[2])
    ELSE assembleMoveGeneral(size, operands[1], operands[2])

\* ------------------------------------------------------- inputs
ShiftMnemonics == {"asl", "asr", "lsl", "lsr", "rol", "ror"}
Sizes == {SizeInvalid, SizeByte, SizeWord, SizeLong}
Regs == 0..7
\* immediate counts, among them two the assembler rejects
ShiftCounts == 0..9
MovemLists == {"d0/d1", "d0-d3/a1", "d0/d7", "a0/a7", "d2/a5/a6", "d0-d7/a0-a7"}
MovemStoreEAs == {OpInd(1), OpPreDec(7), OpDisp(4, 2)}
MovemLoadEAs == {OpInd(1), OpPostInc(7), OpDisp(4, 2)}
MulDivMnemonics == {"mulu", "muls", "divu", "divs"}
MulDivSources == {OpDn(r) : r \in Regs} \cup {OpInd(0), OpDisp(4, 1), OpImm(5)}
\* the two copies of the add/sub encoder the repository holds
Builds == {"CanBeAddqSubq", "isQuickImmediate"}
AddSubMnemonics == {"add", "sub", "addq", "subq"}
AddSubSources == {OpImm(k) : k \in {0, 1, 4, 8, 9}} \cup {OpDn(1)}
AddSubDests == {OpDn(2), OpAn(1), OpInd(1), OpDisp(4, 2)}
MoveSources == {OpImm(k) : k \in {-129, -128, -1, 0, 5, 127, 128}} \cup {OpDn(1)}
MoveDests == {OpDn(r) : r \in {0, 3}} \cup {OpAn(1), OpInd(1)}

\* the extension bytes handed to a raw decode call: 0x12, 0x34, ...
MaxTail == 8
TailBytes(n) == [i \in 1..n |-> (18 + 34 * (i - 1)) % 256]
\* the opwords handed to a raw decode call: every value of bits 6-15 with
\* every addressing mode in bits 0-5 (modes 0-6 on register 0, mode 1 also
\* on register 1, every mode-7 register field), and the opwords decode
\* compares as a whole
EASample == {0, 8, 9, 16, 17, 24, 32, 40, 48} \cup 56..63
SpecialOps ==
    {OPNOP, OPRTS, OPRTR, OPRTE, OPRESET, OPTRAPV, OPSTOP, OPILLEGAL,
     OPANDItoCCR, OPORItoCCR, OPEORItoCCR, OPANDItoSR, OPORItoSR, OPEORItoSR}
RawOps == {f * 64 + e : f \in 0..1023, e \in EASample} \cup SpecialOps

Instructions ==
    {[kind |-> "shift", mn |-> m, size |-> s, operands |-> <<OpImm(k), OpDn(n)>>] :
        m \in ShiftMnemonics, s \in Sizes, k \in ShiftCounts, n \in Regs}
    \cup {[kind |-> "shift", mn |-> m, size |-> s, operands |-> <<OpDn(k), OpDn(n)>>] :
        m \in ShiftMnemonics, s \in Sizes, k \in Regs, n \in Regs}
    \cup {[kind |-> "movem", mn |-> "movem", size |-> s,
           operands |-> <<OpRegList(l), e>>] :
        s \in {SizeInvalid, SizeWord, SizeLong}, l \in MovemLists, e \in MovemStoreEAs}
    \cup {[kind |-> "movem", mn |-> "movem", size |-> s,
           operands |-> <<e, OpRegList(l)>>] :
        s \in {SizeInvalid, SizeWord, SizeLong}, l \in MovemLists, e \in MovemLoadEAs}
    \cup {[kind |-> "exg", mn |-> "exg", size |-> SizeInvalid, operands |-> <<x, y>>] :
        x \in {OpDn(r) : r \in Regs} \cup {OpAn(r) : r \in Regs},
        y \in {OpDn(r) : r \in Regs} \cup {OpAn(r) : r \in Regs}}
    \cup {[kind |-> "muldiv", mn |-> m, size |-> SizeWord, operands |-> <<x, OpDn(n)>>] :
        m \in MulDivMnemonics, x \in MulDivSources, n \in Regs}
    \cup {[kind |-> "addsub", build |-> b, mn |-> m, size |-> s, operands |-> <<x, y>>] :
        b \in Builds, m \in AddSubMnemonics, s \in Sizes, x \in AddSubSources,
        y \in AddSubDests}
    \cup {[kind |-> "move", mn |-> "move", size |-> s, operands |-> <<x, y>>] :
        s \in Sizes, x \in MoveSources, y \in MoveDests}

RawCode(op, n) == WordBytes(<<op>>) \o TailBytes(n)

\* the encoder the assembler dispatches an instruction to
Assembled(ins) ==
    CASE ins.kind = "shift" -> assembleShiftRotate(ins.mn, ins.size, ins.operands)
      [] ins.kind = "movem" -> assembleMovem(ins.size, ins.operands)
      [] ins.kind = "exg" -> assembleExg(ins.operands)
      [] ins.kind = "addsub" -> assembleMath(ins.build, ins.mn, ins.size, ins.operands)
      [] ins.kind = "move" -> assembleMove(ins.mn, ins.size, ins.operands)
      [] ins.mn \in {"mulu", "muls"} -> assembleMul(ins.mn, ins.size, ins.operands)
      [] OTHER -> assembleDiv(ins.mn, ins.size, ins.operands)

\* ------------------------------------------------------- actions
CodecInit ==
    /\ \/ /\ cin \in Instructions
          /\ cwords = <<>>
          /\ cphase = "input"
       \/ /\ \E op \in RawOps, n \in 0..MaxTail : cwords = RawCode(op, n)
          /\ cin = [kind |-> "raw"]
          /\ cphase = "encoded"
    /\ cout = <<>>
    /\ AsmIdle
    /\ DisIdle
    /\ CpuIdle

\* the encoder returns the words of the instruction
CodecEncode ==
    /\ cphase = "input"
    /\ cin.kind # "raw"
    /\ ~Assembled(cin).err
    /\ cwords' = WordBytes(Assembled(cin).words)
    /\ cphase' = "encoded"
    /\ UNCHANGED <<cin, cout>>
    /\ UNCHANGED <<asmVars, disVars, cpuVars>>

\* the encoder returns an error
CodecReject ==
    /\ cphase = "input"
    /\ cin.kind # "raw"
    /\ Assembled(cin).err
    /\ cphase' = "rejected"
    /\ UNCHANGED <<cin, cwords, cout>>
    /\ UNCHANGED <<asmVars, disVars, cpuVars>>

\* the step of the linear sweep at address 0 of the bytes: decode is
\* handed the opword and the bytes after it
CodecDecode ==
    /\ cphase = "encoded"
    /\ cout' = decode(Word16(cwords, 0), 0, Extensions(cwords, 0))
    /\ cphase' = "decoded"
    /\ UNCHANGED <<cin, cwords>>
    /\ UNCHANGED <<asmVars, disVars, cpuVars>>

CodecNext ==
    \/ CodecEncode
    \/ CodecReject
    \/ CodecDecode

CodecSpec == CodecInit /\ [][CodecNext]_vars

\* ===================================================================
\* Claims about decode
\* ===================================================================

\* C16: for every opword and every tail of extension bytes, empty and
\* truncated ones included, decode returns its tuple without reading past
\* the end of the tail, the consumed count is at most the length of the tail,
\* and the recorded instruction ends within the input
C16_DecodeStaysInTail ==
    cphase = "decoded" =>
        /\ ~cout.panic
        /\ cout.used >= 0
        /\ cout.used <= Len(Extensions(cwords, 0))
        /\ 0 + 2 + cout.used <= Len(cwords)

C16_Witness ==
    /\ cphase = "decoded"
    /\ cin.kind = "raw"
    /\ Len(cwords) = 3
    /\ cout.mn = "tst.b"
    /\ cout.ops = "(?,a0)"
    /\ cout.used = 0


\* ===================================================================
\* Claims about the single-operand family
\* ===================================================================
\* the opword of a raw decode call, its size field and its EA field
RawOp == Word16(cwords, 0)

\* NEGX, CLR, NEG, NOT and TST: bits 8-15 select the operation, and the size
\* field is not 3
SingleOperandNames ==
    [h \in {64, 66, 68, 70, 74} |->
        CASE h = 64 -> "negx" [] h = 66 -> "clr" [] h = 68 -> "neg"
          [] h = 70 -> "not" [] OTHER -> "tst"]

IsSingleOperand(op) == Shr(op, 8) \in DOMAIN SingleOperandNames /\ Shr(op, 6) % 4 # 3

\* C17: a single-operand opword (NEGX/CLR/NEG/NOT/TST) decodes to the
\* mnemonic with the suffix of its size field and to the operand text of
\* its EA field, with no override for a particular opcode
C17_Original ==
    (cphase = "decoded" /\ cin.kind = "raw" /\ IsSingleOperand(RawOp)) =>
        /\ cout.mn = SingleOperandNames[Shr(RawOp, 8)] \o SizeSuffix(Shr(RawOp, 6) % 4)
        /\ cout.ops = DecodeEA(RawOp % 64, 0, Extensions(cwords, 0), Shr(RawOp, 6) % 4).text


\* ===================================================================
\* Claims about assembling and then decoding
\* ===================================================================
\* the suffix the decoder prints for the size an instruction is assembled
\* with (setOpwordSize treats no size as word)
SuffixOf(size) ==
    CASE size = SizeByte -> ".b"
      [] size = SizeLong -> ".l"
      [] OTHER -> ".w"

\* C18: an assembled shift or rotate with an immediate count k carries k in
\* bits 9-11 (8 as 0) and decodes to the same mnemonic with operands #k,dn;
\* one with a register count dm,dn decodes to dm,dn
C18_Original ==
    (cphase = "decoded" /\ cin.kind = "shift") =>
        /\ cout.mn = cin.mn \o SuffixOf(cin.size)
        /\ cout.ops = cin.operands[1].raw \o "," \o cin.operands[2].raw
        /\ IsImmediate(cin.operands[1]) =>
                Shr(RawOp, 9) % 8 = parseConstant(cin.operands[1].raw).val % 8


\* the register list in the operand text of a decoded MOVEM: the text before
\* the first comma of a store, the text after the last comma of a load
BeforeFirstComma(s) ==
    IF Contains(s, ",") THEN SubSeq(s, 1, IndexFrom(s, ",", 1) - 1) ELSE s

RECURSIVE AfterLastComma(_)
AfterLastComma(s) ==
    IF Contains(s, ",") THEN AfterLastComma(Rest(s, IndexFrom(s, ",", 1) + 1)) ELSE s

IsMovemStore(ins) == Contains(ins.operands[1].raw, "/")

WrittenList(ins) == IF IsMovemStore(ins) THEN ins.operands[1].raw ELSE ins.operands[2].raw

RenderedList(ins, ops) == IF IsMovemStore(ins) THEN BeforeFirstComma(ops) ELSE AfterLastComma(ops)

\* C19: the register list the disassembler renders for an assembled MOVEM
\* names exactly the registers of the list that was assembled, for every
\* effective address, the predecrement destination included
C19_Original ==
    (cphase = "decoded" /\ cin.kind = "movem") =>
        /\ cout.mn = "movem" \o SuffixOf(cin.size)
        /\ ~parseMovemList(RenderedList(cin, cout.ops)).err
        /\ parseMovemList(RenderedList(cin, cout.ops)).mask = parseMovemList(WrittenList(cin)).mask


\* C20: an opword the assembler produces for exg (Dx,Dy / Ax,Ay / Dx,Ay,
\* every register pair) decodes as exg, and one it produces for mulu, muls,
\* divu or divs decodes as that instruction, never as a generic and / or
C20_Original ==
    /\ (cphase = "decoded" /\ cin.kind = "exg") => cout.mn = "exg"
    /\ (cphase = "decoded" /\ cin.kind = "muldiv") => cout.mn = cin.mn \o ".w"


\* C27: an address is marked as code only if it is reachable from address 0
\* by fall-through of a non-terminal instruction or by the actual target of
\* a decoded branch, DBcc, jmp or jsr, and a byte that is not is rendered by
\* the data analyser
C27_Original ==
    dphase \in {"render", "done"} =>
        /\ \A a \in DOMAIN instructions : instructions[a].IsCode => a \in Reachable
        /\ \A k \in DOMAIN rendered :
                rendered[k].kind = "insn" => rendered[k].addr \in Reachable


\* ------------------------------------------------------------------ C26
\* the labels a program defines once
DefinedOnce(l) == Cardinality({i \in 1..Len(nodes) : nodes[i].type = "label" /\ nodes[i].label = l}) = 1

\* C26: the final pass appends for every node as many bytes as the last
\* sizing pass assigned to it as its Size, and reaches every label at the
\* label's recorded address
C26_Original ==
    phase = "done" =>
        \A i \in 1..Len(nodes) :
            /\ out[i].len = sizes[i]
            /\ (nodes[i].type = "label" /\ DefinedOnce(nodes[i].label)) =>
                    out[i].pc = labels[nodes[i].label]


\* ------------------------------------------------------------------ C30
\* the bytes that can follow a one-word branch in the output: none, or a word
FollowingBytes == {<<>>, <<0, 0>>, <<78, 113>>}

\* the branches the final pass emitted as a single word
ShortBranches == {i \in 1..Len(nodes) : IsBcc(nodes[i]) /\ Len(out[i].words) = 1}

\* C30: every branch the assembler emits as a single word is decoded as a
\* two-byte branch with the displacement the assembler computed, whatever
\* follows it
C30_Original ==
    phase = "done" =>
        \A i \in ShortBranches : \A tail \in FollowingBytes :
            LET d == decode(out[i].words[1], 0, tail)
            IN  /\ d.mn = nodes[i].mn
                /\ d.used = 0
                /\ d.ops = formatDisp(BranchOffset(labels[DispLabel(nodes[i])], out[i].pc))


\* ===================================================================
\* Claims about the short forms
\* ===================================================================
\* the first word the encoder returned
FirstWord == Word16(cwords, 0)

\* the instruction is add or sub with an immediate source between 1 and 8
IsQuickCase(ins) ==
    /\ ins.kind = "addsub"
    /\ ins.mn \in {"add", "sub"}
    /\ IsImmediate(ins.operands[1])
    /\ parseConstant(ins.operands[1].raw).val \in 1..8

\* C21: add or sub with an immediate source k between 1 and 8 is encoded in
\* the ADDQ/SUBQ form, k in bits 9-11 (8 as 0), with no immediate extension
\* word, so that its size is the opword and the extension of its destination
C21_Original ==
    (cphase \in {"encoded", "decoded"} /\ IsQuickCase(cin)) =>
        /\ And16(FirstWord, 61696) = (IF cin.mn = "add" THEN OPADDQ ELSE OPSUBQ)
        /\ Shr(FirstWord, 9) % 8 = parseConstant(cin.operands[1].raw).val % 8
        /\ Len(cwords) = 2 + 2 * Len(encodeEA(cin.operands[2]).ext)

\* the instruction is a move of an immediate between -128 and 127 to a data
\* register
IsMoveqCase(ins) ==
    /\ ins.kind = "move"
    /\ ins.operands[2].mode = ModeData
    /\ IsImmediate(ins.operands[1])
    /\ parseConstant(ins.operands[1].raw).val \in -128..127

\* C22: move #k,Dn with k in -128..127 is encoded as the one-word MOVEQ when
\* its size is long, and as an ordinary MOVE of the written size when the
\* size is an explicit byte or word
C22_Original ==
    IsMoveqCase(cin) =>
        /\ cphase # "rejected"
        /\ (cphase \in {"encoded", "decoded"} /\ cin.size = SizeLong) =>
                /\ Len(cwords) = 2
                /\ FirstWord = OPMOVEQ + cin.operands[2].reg * 512
                                + (U16(parseConstant(cin.operands[1].raw).val) % 256)
        /\ (cphase \in {"encoded", "decoded"} /\ cin.size \in {SizeByte, SizeWord}) =>
                /\ Len(cwords) = 4
                /\ FirstWord = (IF cin.size = SizeByte THEN 4096 ELSE 12288)
                                + cin.operands[2].reg * 512 + 60


\* ======================================================================
\* The emulator (cpu/*.go)
\* ======================================================================

\* ------------------------------------------------------------ uint32
\* a uint32 is kept as its two 16-bit halves <<high, low>>
Long(hi, lo) == <<hi, lo>>
Z32 == Long(0, 0)

\* uint32(n) for a natural number below 2^31
LongOf(n) == Long(n \div 65536, n % 65536)

\* a + b in uint32
AddL(a, b) == Long((a[1] + b[1] + ((a[2] + b[2]) \div 65536)) % 65536, (a[2] + b[2]) % 65536)

\* a - n in uint32, n below 65536
SubL(a, n) == AddL(a, Long(IF n = 0 THEN 0 ELSE 65535, (65536 - n) % 65536))

\* uint32(signExtend16(v))
signExtend16(v) == Long(IF v >= 32768 THEN 65535 ELSE 0, v)

\* uint32(int32(int8(v)))
signExtend8(v) == Long(IF v >= 128 THEN 65535 ELSE 0, IF v >= 128 THEN 65280 + v ELSE v)

\* the bytes of an access of the size; Size.Bytes() for the steps of (An)+
\* and -(An)
Bytes(size) ==
    CASE size = SizeByte -> 1
      [] size = SizeWord -> 2
      [] size = SizeLong -> 4
      [] OTHER -> 0

OperandSizes == {SizeByte, SizeWord, SizeLong}

\* ------------------------------------------------------------ memory
\* len(c.Mem), the memsize given to New
MemSize == 65536

\* no effective address
NoAddr == <<>>

\* c.Mem is kept as the map of its non-zero bytes
MemByte(mem, a) == IF a \in DOMAIN mem THEN mem[a] ELSE 0

MemWrite(mem, a, b) ==
    [x \in {y \in DOMAIN mem \cup {a} : (IF y = a THEN b ELSE mem[y]) # 0} |->
        IF x = a THEN b ELSE mem[x]]

\* an access of n bytes at the address stays inside c.Mem; outside it the Go
\* runtime panics
InMem(a, n) == a[1] = 0 /\ a[2] + n <= MemSize

ReadU16(c, a) == MemByte(c.Mem, a[2]) * 256 + MemByte(c.Mem, a[2] + 1)

ReadU32(c, a) == Long(ReadU16(c, a), ReadU16(c, AddL(a, LongOf(2))))

WriteU16(mem, a, w) == MemWrite(MemWrite(mem, a, w \div 256), a + 1, w % 256)

WriteU32(mem, a, v) == WriteU16(WriteU16(mem, a, v[1]), a + 2, v[2])

\* what GetOperand and PutOperand return, with the CPU as they leave it and
\* the effective address they used
Ret(c, val, err, addr) == [c |-> c, val |-> val, err |-> err, addr |-> addr]

StepPC(c, n) == [c EXCEPT !.PC = AddL(@, LongOf(n))]

\* the step of (An)+ and -(An)
Increment(size, reg) == IF size = SizeByte /\ reg # 7 THEN 2 ELSE Bytes(size)

\* ------------------------------------------------------------ GetOperand
\* the value of a register at the size
RegVal(v, size) ==
    CASE size = SizeByte -> Long(0, v[2] % 256)
      [] size = SizeWord -> Long(0, v[2])
      [] OTHER -> v

GetRegister(c, v, size) ==
    IF size \in OperandSizes THEN Ret(c, RegVal(v, size), "nil", NoAddr)
    ELSE Ret(c, Z32, "error", NoAddr)

ReadSized(c, a, size) ==
    CASE size = SizeByte -> Long(0, MemByte(c.Mem, a[2]))
      [] size = SizeWord -> Long(0, ReadU16(c, a))
      [] OTHER -> ReadU32(c, a)

\* the switch on size that reads memory at addr
Load(c, a, size) ==
    IF size \notin OperandSizes THEN Ret(c, Z32, "error", a)
    ELSE IF ~InMem(a, Bytes(size)) THEN Ret(c, Z32, "panic", a)
    ELSE Ret(c, ReadSized(c, a, size), "nil", a)

GetDisp(c, reg, size) ==
    IF ~InMem(c.PC, 2) THEN Ret(c, Z32, "panic", NoAddr)
    ELSE Load(StepPC(c, 2), AddL(c.A[reg], signExtend16(ReadU16(c, c.PC))), size)

GetAbsShort(c, size) ==
    IF ~InMem(c.PC, 2) THEN Ret(c, Z32, "panic", NoAddr)
    ELSE Load(StepPC(c, 2), signExtend16(ReadU16(c, c.PC)), size)

GetAbsLong(c, size) ==
    IF ~InMem(c.PC, 4) THEN Ret(c, Z32, "panic", NoAddr)
    ELSE Load(StepPC(c, 4), ReadU32(c, c.PC), size)

GetImmediate(c, size) ==
    IF size \notin OperandSizes THEN Ret(c, Z32, "nil", NoAddr)
    ELSE IF ~InMem(c.PC, Bytes(IF size = SizeByte THEN SizeWord ELSE size))
        THEN Ret(c, Z32, "panic", NoAddr)
    ELSE IF size = SizeByte
        THEN Ret(StepPC(c, 2), Long(0, ReadU16(c, c.PC) % 256), "nil", NoAddr)
    ELSE IF size = SizeWord
        THEN Ret(StepPC(c, 2), Long(0, ReadU16(c, c.PC)), "nil", NoAddr)
    ELSE Ret(StepPC(c, 4), ReadU32(c, c.PC), "nil", NoAddr)

GetOperand(c, mode, reg, size) ==
    CASE mode = ModeData -> GetRegister(c, c.D[reg], size)
      [] mode = ModeAddr -> GetRegister(c, c.A[reg], size)
      [] mode = ModeAddrInd -> Load(c, c.A[reg], size)
      [] mode = ModeAddrPostInc ->
            Load([c EXCEPT !.A[reg] = AddL(@, LongOf(Increment(size, reg)))], c.A[reg], size)
      [] mode = ModeAddrPreDec ->
            Load([c EXCEPT !.A[reg] = SubL(@, Increment(size, reg))],
                 SubL(c.A[reg], Increment(size, reg)), size)
      [] mode = ModeAddrDisp -> GetDisp(c, reg, size)
      [] mode = ModeOther /\ reg = ModeAbsShort -> GetAbsShort(c, size)
      [] mode = ModeOther /\ reg = ModeAbsLong -> GetAbsLong(c, size)
      [] mode = ModeOther /\ reg = ModeImmediate -> GetImmediate(c, size)
      [] OTHER -> Ret(c, Z32, "error", NoAddr)

\* ------------------------------------------------------------ PutOperand
\* the switch on size that writes memory at addr
Store(c, a, size, value) ==
    IF size \notin OperandSizes THEN Ret(c, Z32, "error", a)
    ELSE IF ~InMem(a, Bytes(size)) THEN Ret(c, Z32, "panic", a)
    ELSE IF size = SizeByte
        THEN Ret([c EXCEPT !.Mem = MemWrite(@, a[2], value[2] % 256)], Z32, "nil", a)
    ELSE IF size = SizeWord
        THEN Ret([c EXCEPT !.Mem = WriteU16(@, a[2], value[2])], Z32, "nil", a)
    ELSE Ret([c EXCEPT !.Mem = WriteU32(@, a[2], value)], Z32, "nil", a)

PutData(c, reg, size, value) ==
    CASE size = SizeByte ->
            Ret([c EXCEPT !.D[reg] = Long(@[1], (@[2] \div 256) * 256 + (value[2] % 256))],
                Z32, "nil", NoAddr)
      [] size = SizeWord -> Ret([c EXCEPT !.D[reg] = Long(@[1], value[2])], Z32, "nil", NoAddr)
      [] size = SizeLong -> Ret([c EXCEPT !.D[reg] = value], Z32, "nil", NoAddr)
      [] OTHER -> Ret(c, Z32, "error", NoAddr)

PutAddr(c, reg, size, value) ==
    CASE size = SizeWord -> Ret([c EXCEPT !.A[reg] = signExtend16(value[2])], Z32, "nil", NoAddr)
      [] size = SizeLong -> Ret([c EXCEPT !.A[reg] = value], Z32, "nil", NoAddr)
      [] OTHER -> Ret(c, Z32, "error", NoAddr)

PutDisp(c, reg, size, value) ==
    IF ~InMem(c.PC, 2) THEN Ret(c, Z32, "panic", NoAddr)
    ELSE Store(c, AddL(c.A[reg], signExtend16(ReadU16(c, c.PC))), size, value)

PutAbsShort(c, size, value) ==
    IF ~InMem(c.PC, 2) THEN Ret(c, Z32, "panic", NoAddr)
    ELSE Store(c, signExtend16(ReadU16(c, c.PC)), size, value)

PutAbsLong(c, size, value) ==
    IF ~InMem(c.PC, 4) THEN Ret(c, Z32, "panic", NoAddr)
    ELSE Store(c, ReadU32(c, c.PC), size, value)

PutOperand(c, mode, reg, size, value) ==
    CASE mode = ModeData -> PutData(c, reg, size, value)
      [] mode = ModeAddr -> PutAddr(c, reg, size, value)
      [] mode = ModeAddrInd -> Store(c, c.A[reg], size, value)
      [] mode = ModeAddrPostInc ->
            Store([c EXCEPT !.A[reg] = AddL(@, LongOf(Increment(size, reg)))], c.A[reg], size, value)
      [] mode = ModeAddrPreDec ->
            Store([c EXCEPT !.A[reg] = SubL(@, Increment(size, reg))],
                  SubL(c.A[reg], Increment(size, reg)), size, value)
      [] mode = ModeAddrDisp -> PutDisp(c, reg, size, value)
      [] mode = ModeOther /\ reg = ModeAbsShort -> PutAbsShort(c, size, value)
      [] mode = ModeOther /\ reg = ModeAbsLong -> PutAbsLong(c, size, value)
      [] OTHER -> Ret(c, Z32, "error", NoAddr)


\* ------------------------------------------------------------ flags
SRC == 1
SRV == 2
SRZ == 4
SRN == 8
SRX == 16

\* sr &^ mask and sr | mask
ClearBits(sr, mask) == sr - And16(sr, mask)
SetBits(sr, mask) == sr + mask - And16(sr, mask)

\* the most significant bit of the value at the size
Msb(v, size) ==
    CASE size = SizeByte -> (v[2] \div 128) % 2
      [] size = SizeWord -> (v[2] \div 32768) % 2
      [] size = SizeLong -> v[1] \div 32768
      [] OTHER -> 0

\* the value is zero at the size
IsZeroAt(v, size) ==
    CASE size = SizeByte -> v[2] % 256 = 0
      [] size = SizeWord -> v[2] = 0
      [] size = SizeLong -> v = Z32
      [] OTHER -> FALSE

setNZ(sr, value, size) ==
    SetBits(SetBits(ClearBits(sr, SRN + SRZ),
                    IF IsZeroAt(value, size) THEN SRZ ELSE 0),
            IF Msb(value, size) = 1 THEN SRN ELSE 0)

\* the flag bits setFlagsArith sets from the sign bits s, d, r of the
\* operands and the result
ArithFlags(s, d, r, zero) ==
    (IF zero THEN SRZ ELSE 0)
    + (IF r = 1 THEN SRN ELSE 0)
    + (IF (s = 1 /\ d = 1) \/ (r = 0 /\ s = 1) \/ (r = 0 /\ d = 1) THEN SRC + SRX ELSE 0)
    + (IF s = d /\ s # r THEN SRV ELSE 0)

setFlagsArith(sr, src, dst, result, size) ==
    ClearBits(sr, SRX + SRN + SRZ + SRV + SRC)
    + ArithFlags(Msb(src, size), Msb(dst, size), Msb(result, size),
                 size \notin OperandSizes \/ IsZeroAt(result, size))

\* ------------------------------------------------------------ handlers
\* what a handler returns, with the CPU as it leaves it and the effective
\* addresses it read and wrote
Done(c, err, raddr, waddr) == [c |-> c, err |-> err, raddr |-> raddr, waddr |-> waddr]

opMOVEQ(c, inst) ==
    Done([c EXCEPT !.D[inst.DstReg] = signExtend8(inst.SrcReg % 256),
                   !.SR = setNZ(ClearBits(@, SRV + SRC), signExtend8(inst.SrcReg % 256), SizeLong)],
         "nil", NoAddr, NoAddr)

MoveaValue(value, size) == IF size = SizeWord THEN signExtend16(value[2]) ELSE value

MoveaStore(got, inst) ==
    IF got.err # "nil" THEN Done(got.c, got.err, got.addr, NoAddr)
    ELSE Done([got.c EXCEPT !.A[inst.DstReg] = MoveaValue(got.val, inst.Size)],
              "nil", got.addr, NoAddr)

opMOVEA(c, inst) ==
    IF inst.Size = SizeByte THEN Done(c, "error", NoAddr, NoAddr)
    ELSE MoveaStore(GetOperand(c, inst.SrcMode, inst.SrcReg, inst.Size), inst)

\* the end of a handler that wrote its result: the flags are set when the
\* write returned no error
Written(put, sr, raddr) ==
    IF put.err # "nil" THEN Done(put.c, put.err, raddr, put.addr)
    ELSE Done([put.c EXCEPT !.SR = sr], "nil", raddr, put.addr)

MoveStore(got, inst) ==
    IF got.err # "nil" THEN Done(got.c, got.err, got.addr, NoAddr)
    ELSE Written(PutOperand(got.c, inst.DstMode, inst.DstReg, inst.Size, got.val),
                 setNZ(ClearBits(got.c.SR, SRV + SRC), got.val, inst.Size), got.addr)

opMOVE(c, inst) == MoveStore(GetOperand(c, inst.SrcMode, inst.SrcReg, inst.Size), inst)

\* the handlers of add set the flags before they write the result
Flagged(c, src, dst, size) == [c EXCEPT !.SR = setFlagsArith(@, src, dst, AddL(dst, src), size)]

AddPut(put, raddr) == Done(put.c, put.err, raddr, put.addr)

\* Dn = Dn + <ea>
AddToDnSum(got, dst, inst) ==
    IF got.err # "nil" THEN Done(got.c, got.err, got.addr, NoAddr)
    ELSE AddPut(PutOperand(Flagged(got.c, got.val, dst, inst.Size), ModeData, inst.DstReg,
                           inst.Size, AddL(dst, got.val)), got.addr)

AddToDn(first, inst) ==
    IF first.err # "nil" THEN Done(first.c, first.err, NoAddr, NoAddr)
    ELSE AddToDnSum(GetOperand(first.c, inst.SrcMode, inst.SrcReg, inst.Size), first.val, inst)

\* <ea> = <ea> + Dn
AddToEASum(got, dst, raddr, inst) ==
    IF got.err # "nil" THEN Done(got.c, got.err, raddr, NoAddr)
    ELSE AddPut(PutOperand(Flagged(got.c, got.val, dst, inst.Size), inst.SrcMode, inst.SrcReg,
                           inst.Size, AddL(dst, got.val)), raddr)

AddToEA(first, inst) ==
    IF first.err # "nil" THEN Done(first.c, first.err, first.addr, NoAddr)
    ELSE AddToEASum(GetOperand(first.c, ModeData, inst.DstReg, inst.Size), first.val,
                    first.addr, inst)

opADD(c, inst) ==
    IF And16(inst.OpMode, 256) = 0
    THEN AddToDn(GetOperand(c, ModeData, inst.DstReg, inst.Size), inst)
    ELSE AddToEA(GetOperand(c, inst.SrcMode, inst.SrcReg, inst.Size), inst)

AddqSum(got, inst) ==
    IF got.err # "nil" THEN Done(got.c, got.err, got.addr, NoAddr)
    ELSE AddPut(PutOperand(Flagged(got.c, LongOf(inst.SrcReg), got.val, inst.Size),
                           inst.DstMode, inst.DstReg, inst.Size,
                           AddL(got.val, LongOf(inst.SrcReg))), got.addr)

opADDQ(c, inst) == AddqSum(GetOperand(c, inst.DstMode, inst.DstReg, inst.Size), inst)

opTRAP(c, inst) ==
    Done(IF inst.DstReg = 15 THEN [c EXCEPT !.Running = FALSE] ELSE c, "nil", NoAddr, NoAddr)

opRTS(c, inst) ==
    IF ~InMem(c.A[7], 4) THEN Done(c, "panic", c.A[7], NoAddr)
    ELSE Done([c EXCEPT !.A[7] = AddL(@, LongOf(4)), !.PC = ReadU32(c, c.A[7])],
              "nil", c.A[7], NoAddr)

\* inst.Handler(c, inst)
Handle(c, inst) ==
    CASE inst.Handler = "opMOVE" -> opMOVE(c, inst)
      [] inst.Handler = "opMOVEA" -> opMOVEA(c, inst)
      [] inst.Handler = "opMOVEQ" -> opMOVEQ(c, inst)
      [] inst.Handler = "opADD" -> opADD(c, inst)
      [] inst.Handler = "opADDQ" -> opADDQ(c, inst)
      [] inst.Handler = "opTRAP" -> opTRAP(c, inst)
      [] OTHER -> opRTS(c, inst)

\* ------------------------------------------------------------ Decode
\* the zero DecodedInstruction
NoInst ==
    [Handler |-> "nil", Size |-> SizeInvalid, SrcMode |-> 0, SrcReg |-> 0,
     DstMode |-> 0, DstReg |-> 0, OpMode |-> 0]

\* what Decode returns
Decoded(inst) == [inst |-> inst, err |-> FALSE]
Unknown == [inst |-> NoInst, err |-> TRUE]

\* the size of the two size bits of add and addq
SizeOfBits(bits) ==
    CASE bits = 0 -> SizeByte
      [] bits = 1 -> SizeWord
      [] bits = 2 -> SizeLong
      [] OTHER -> SizeInvalid

\* the size of the two size bits of move
MoveSizeOfBits(bits) ==
    CASE bits = 1 -> SizeByte
      [] bits = 3 -> SizeWord
      [] OTHER -> SizeLong

cpu_decodeMove(opcode) ==
    Decoded([NoInst EXCEPT
        !.Size = MoveSizeOfBits(Shr(opcode, 12) % 4),
        !.DstMode = Shr(opcode, 6) % 8,
        !.DstReg = Shr(opcode, 9) % 8,
        !.SrcMode = Shr(opcode, 3) % 8,
        !.SrcReg = opcode % 8,
        !.Handler = IF Shr(opcode, 6) % 8 = ModeAddr THEN "opMOVEA" ELSE "opMOVE"])

cpu_decodeMoveq(opcode) ==
    Decoded([NoInst EXCEPT
        !.Handler = "opMOVEQ",
        !.Size = SizeLong,
        !.DstReg = Shr(opcode, 9) % 8,
        !.SrcReg = opcode % 256])

\* the fields of addq; its handler is missing for subq
AddqFields(opcode, handler) ==
    Decoded([NoInst EXCEPT
        !.Handler = handler,
        !.SrcReg = IF Shr(opcode, 9) % 8 = 0 THEN 8 ELSE Shr(opcode, 9) % 8,
        !.Size = SizeOfBits(Shr(opcode, 6) % 4),
        !.DstMode = Shr(opcode, 3) % 8,
        !.DstReg = opcode % 8])

cpu_decodeAddqSubq(opcode) ==
    IF Shr(opcode, 8) % 2 = 1 THEN Unknown
    ELSE IF Shr(opcode, 6) % 4 = 3 THEN Unknown
    ELSE AddqFields(opcode, "opADDQ")

AddFields(opcode, opmode) ==
    Decoded([NoInst EXCEPT
        !.Handler = "opADD",
        !.OpMode = opmode,
        !.Size = SizeOfBits(Shr(opcode, 6) % 4),
        !.DstReg = Shr(opcode, 9) % 8,
        !.SrcMode = Shr(opcode, 3) % 8,
        !.SrcReg = opcode % 8])

cpu_decodeAdd(opcode) ==
    IF Shr(opcode, 6) % 4 = 3 THEN Unknown
    ELSE AddFields(opcode, Shr(opcode, 6) % 8)

\* the miscellaneous group: the case of trap comes before the case of rts
cpu_decodeMisc(opcode) ==
    IF And16(opcode, 65472) = OPTRAP
        THEN Decoded([NoInst EXCEPT !.Handler = "opTRAP", !.DstReg = opcode % 16])
    ELSE IF opcode = OPRTS
        THEN Decoded([NoInst EXCEPT !.Handler = "opRTS"])
    ELSE Unknown

\* Decode as it stands in the unnamed file with the cases of trap and rts
DecodeMisc(opcode) ==
    CASE Shr(opcode, 12) \in {1, 2, 3} -> cpu_decodeMove(opcode)
      [] Shr(opcode, 12) = 5 -> cpu_decodeAddqSubq(opcode)
      [] Shr(opcode, 12) = 7 -> cpu_decodeMoveq(opcode)
      [] Shr(opcode, 12) = 13 -> cpu_decodeAdd(opcode)
      [] Shr(opcode, 12) = 4 -> cpu_decodeMisc(opcode)
      [] OTHER -> Unknown

\* Decode as it stands in cpu/decode.go
DecodeNibble(opcode) ==
    CASE Shr(opcode, 12) \in {1, 2, 3} -> cpu_decodeMove(opcode)
      [] Shr(opcode, 12) = 5 ->
            IF And16(opcode, 192) = 192 THEN Unknown
            ELSE AddqFields(opcode, IF Shr(opcode, 8) % 2 = 0 THEN "opADDQ" ELSE "nil")
      [] Shr(opcode, 12) = 7 -> cpu_decodeMoveq(opcode)
      [] Shr(opcode, 12) = 13 -> AddFields(opcode, And16(opcode, 448))
      [] OTHER -> Unknown

\* the copies of Decode the package can be built with
Decoders == {"part_003", "decode.go"}

Decode(dec, opcode) == IF dec = "part_003" THEN DecodeMisc(opcode) ELSE DecodeNibble(opcode)

\* ------------------------------------------------------------ Execute
\* what Execute returns, with the CPU as it leaves it
Executed(c, err, opcode, handler, raddr, waddr) ==
    [c |-> c, err |-> err, opcode |-> opcode, handler |-> handler,
     raddr |-> raddr, waddr |-> waddr]

Handled(done, opcode, handler) ==
    Executed(done.c, done.err, opcode, handler, done.raddr, done.waddr)

Dispatch(c, d, opcode) ==
    IF d.err \/ d.inst.Handler = "nil" THEN Executed(c, "error", opcode, "nil", NoAddr, NoAddr)
    ELSE Handled(Handle(c, d.inst), opcode, d.inst.Handler)

Fetch(c, dec) ==
    IF ~InMem(c.PC, 2) THEN Executed(c, "panic", 0, "nil", NoAddr, NoAddr)
    ELSE Dispatch(StepPC(c, 2), Decode(dec, ReadU16(c, c.PC)), ReadU16(c, c.PC))

Execute_NoRunningCheck(c, dec) == Fetch(c, dec)

Execute(c, dec) ==
    IF ~c.Running THEN Executed(c, "nil", 0, "nil", NoAddr, NoAddr)
    ELSE Fetch(c, dec)


\* ------------------------------------------------------------ New, LoadCode
New ==
    [D |-> [r \in 0..7 |-> Z32], A |-> [r \in 0..7 |-> Z32], PC |-> Z32, SR |-> 0,
     Mem |-> [x \in {} |-> 0], Running |-> FALSE]

\* copy(c.Mem[addr:], code) and c.PC = addr, for a program that fits
LoadCode(c, addr, code) ==
    [c EXCEPT
        !.Mem = [x \in {y \in DOMAIN c.Mem \cup (addr..(addr + Len(code) - 1)) :
                            (IF y \in addr..(addr + Len(code) - 1)
                             THEN code[y - addr + 1] ELSE c.Mem[y]) # 0} |->
                    IF x \in addr..(addr + Len(code) - 1) THEN code[x - addr + 1] ELSE c.Mem[x]],
        !.PC = LongOf(addr)]

\* ------------------------------------------------------------ inputs
MaxCalls == 7

\* the address the programs are loaded at
LoadAddr == 4096

\* trap #15
TrapHalt == OPTRAP + 15

\* the number of extension words of an operand, by the MC68000 formats
EAExtWords(mode, reg, size) ==
    CASE mode \in {ModeAddrDisp, ModeAddrIndex} -> 1
      [] mode = ModeOther /\ reg = ModeAbsLong -> 2
      [] mode = ModeOther /\ reg = ModeImmediate -> IF size = SizeLong THEN 2 ELSE 1
      [] mode = ModeOther -> 1
      [] OTHER -> 0

\* the number of extension words of the instruction of the opword
ExtWordsOf(opcode) ==
    CASE Shr(opcode, 12) \in {1, 2, 3} ->
            EAExtWords(Shr(opcode, 3) % 8, opcode % 8, MoveSizeOfBits(Shr(opcode, 12) % 4))
            + EAExtWords(Shr(opcode, 6) % 8, Shr(opcode, 9) % 8, MoveSizeOfBits(Shr(opcode, 12) % 4))
      [] Shr(opcode, 12) \in {5, 13} ->
            EAExtWords(Shr(opcode, 3) % 8, opcode % 8, SizeOfBits(Shr(opcode, 6) % 4))
      [] OTHER -> 0

\* the operands of the instructions under test: <<mode, register>>
SrcEAs ==
    {<<ModeData, 1>>, <<ModeAddr, 0>>, <<ModeAddrInd, 0>>, <<ModeAddrPostInc, 0>>,
     <<ModeAddrPreDec, 0>>, <<ModeAddrDisp, 0>>, <<ModeAddrIndex, 0>>,
     <<ModeOther, ModeAbsShort>>, <<ModeOther, ModeAbsLong>>,
     <<ModeOther, ModePCRelative>>, <<ModeOther, ModeImmediate>>}
DstEAs ==
    {<<ModeData, 2>>, <<ModeAddr, 1>>, <<ModeAddrInd, 0>>, <<ModeAddrPostInc, 0>>,
     <<ModeAddrPreDec, 0>>, <<ModeAddrDisp, 0>>,
     <<ModeOther, ModeAbsShort>>, <<ModeOther, ModeAbsLong>>, <<ModeOther, ModeImmediate>>}

MoveOps ==
    {s * 4096 + d[2] * 512 + d[1] * 64 + e[1] * 8 + e[2] : s \in 1..3, d \in DstEAs, e \in SrcEAs}
AddqOps ==
    {OPADDQ + k * 512 + s * 64 + e[1] * 8 + e[2] : k \in {0, 1}, s \in 0..2, e \in SrcEAs}
    \cup {OPSUBQ + 512 + 64 + 1}
AddOps ==
    {OPADD + 512 + m * 64 + e[1] * 8 + e[2] : m \in {0, 1, 2, 4, 5, 6}, e \in SrcEAs}
    \cup {OPADD + 512 + 192 + 1}
MiscOps ==
    {OPTRAP, TrapHalt, OPTRAP + 31, OPTRAP + 47, OPRTS, OPNOP, OPMOVEQ + 512 + 255, 0}
TestOps == MoveOps \cup AddqOps \cup AddOps \cup MiscOps

\* the words that stand after the opword under test, as many as it has
\* extension words
ExtStreams == {<<0, 8192, 0, 8196>>, <<4, 4, 4, 4>>}

\* movea.l #a,a0 ; moveq #k,d1
Setup(a, k) == <<8316, 0, a, OPMOVEQ + 512 + k>>

TestWords(a, k, op, stream) ==
    Setup(a, k) \o <<op>> \o SubSeq(stream, 1, ExtWordsOf(op)) \o <<TrapHalt>>

\* moveq #12,d0 ; moveq #7,d1 ; add.l d1,d0 ; movea.l #$2000,a0 ;
\* move.w d0,(a0) ; trap #15
SumWords == <<28684, 29191, 53377, 8316, 0, 8192, 12416, TrapHalt>>

ProgramWords ==
    {SumWords}
    \cup {TestWords(a, k, op, stream) :
            a \in {8192, 65534}, k \in {7, 255}, op \in TestOps, stream \in ExtStreams}

\* the call the host made last
NoCall == [kind |-> "none", err |-> "nil", opcode |-> 0, handler |-> "nil",
           raddr |-> NoAddr, waddr |-> NoAddr]
StartCall == [NoCall EXCEPT !.kind = "Start"]
ExecuteCall(r) ==
    [kind |-> "Execute", err |-> r.err, opcode |-> r.opcode, handler |-> r.handler,
     raddr |-> r.raddr, waddr |-> r.waddr]

\* ------------------------------------------------------------ actions
CpuInit ==
    /\ decoder \in Decoders
    /\ \E w \in ProgramWords :
        /\ loaded = [addr |-> LoadAddr, words |-> w]
        /\ cpu = LoadCode(New, LoadAddr, WordBytes(w))
    /\ calls = 0
    /\ prev = New
    /\ lastCall = NoCall
    /\ AsmIdle
    /\ DisIdle
    /\ CodecIdle

\* the host sets Running
CpuStart ==
    /\ ~cpu.Running
    /\ lastCall.err # "panic"
    /\ cpu' = [cpu EXCEPT !.Running = TRUE]
    /\ prev' = cpu
    /\ lastCall' = StartCall
    /\ calls' = 0
    /\ UNCHANGED <<decoder, loaded>>
    /\ UNCHANGED <<asmVars, disVars, codecVars>>

\* the host calls Execute; a panic of the Go runtime ends the program
CpuExecute ==
    /\ lastCall.err # "panic"
    /\ calls < MaxCalls
    /\ cpu' = Execute(cpu, decoder).c
    /\ prev' = cpu
    /\ lastCall' = ExecuteCall(Execute(cpu, decoder))
    /\ calls' = calls + 1
    /\ UNCHANGED <<decoder, loaded>>
    /\ UNCHANGED <<asmVars, disVars, codecVars>>

CpuNext ==
    \/ CpuStart
    \/ CpuExecute

CpuSpec == CpuInit /\ [][CpuNext]_vars


\* ===================================================================
\* Claims about the emulator
\* ===================================================================
\* the last call was an Execute of the first run of the loaded program: the
\* host had set Running and PC was inside the program
InFirstRun ==
    /\ lastCall.kind = "Execute"
    /\ prev.Running
    /\ prev.PC[1] = 0
    /\ prev.PC[2] < loaded.addr + 2 * Len(loaded.words)

\* C25: the program moveq #12,d0; moveq #7,d1; add.l d1,d0; movea.l #$2000,a0;
\* move.w d0,(a0); trap #15, run from its start, returns no error from any
\* Execute call and stops running after the sixth call and no earlier, with
\* D0 = 19, A0 = 0x2000 and the bytes 00 13 at 0x2000
C25_Original ==
    (loaded.words = SumWords /\ InFirstRun) =>
        /\ lastCall.err = "nil"
        /\ cpu.Running <=> calls < 6
        /\ calls = 6 =>
            /\ cpu.D[0] = LongOf(19)
            /\ cpu.A[0] = LongOf(8192)
            /\ MemByte(cpu.Mem, 8192) = 0
            /\ MemByte(cpu.Mem, 8193) = 19


\* the last call was an Execute made while the CPU was running
RanOne == lastCall.kind = "Execute" /\ prev.Running

\* C23: an Execute call changes Running from true to false only when the
\* opword it executed is trap #15 (0x4E4F)
C23_Original == (RanOne /\ ~cpu.Running) => lastCall.opcode = TrapHalt

\* C24: an Execute call made while Running is false returns no error and
\* leaves the registers, PC, SR, memory and Running as they were, and no
\* Execute call changes Running from false to true
C24_NotRunningIsTerminal ==
    lastCall.kind = "Execute" =>
        /\ ~prev.Running => (cpu = prev /\ lastCall.err = "nil")
        /\ cpu.Running => prev.Running

\* Execute was called on a CPU that had run the program and was halted
C24_Witness ==
    /\ lastCall.kind = "Execute"
    /\ ~prev.Running
    /\ prev.PC # LongOf(loaded.addr)
    /\ prev.A[0] # Z32
    /\ cpu = prev

\* the size and the operand of the instruction of the opword, for add and addq
OpSize(opcode) == SizeOfBits(Shr(opcode, 6) % 4)
OpEAMode(opcode) == Shr(opcode, 3) % 8
OpEAReg(opcode) == opcode % 8

\* C28: after an Execute call that returned no error, PC is the address of the
\* opword plus 2 plus the bytes of the extension words of the instruction
C28_Original ==
    (RanOne /\ lastCall.err = "nil" /\ lastCall.handler # "opRTS") =>
        cpu.PC = AddL(prev.PC, LongOf(2 + 2 * ExtWordsOf(lastCall.opcode)))

\* the opword is addq #k,<ea> or add Dn,<ea> with <ea> in memory
IsReadModifyWrite(opcode) ==
    /\ \/ Shr(opcode, 12) = 5 /\ Shr(opcode, 8) % 2 = 0
       \/ Shr(opcode, 12) = 13 /\ Shr(opcode, 8) % 2 = 1
    /\ Shr(opcode, 6) % 4 # 3
    /\ \/ OpEAMode(opcode) \in {ModeAddrInd, ModeAddrPostInc, ModeAddrPreDec, ModeAddrDisp}
       \/ OpEAMode(opcode) = ModeOther /\ OpEAReg(opcode) \in {ModeAbsShort, ModeAbsLong}

\* the address register of the operand after one step of its mode
OneStep(a, opcode) ==
    CASE OpEAMode(opcode) = ModeAddrPostInc ->
            AddL(a, LongOf(Increment(OpSize(opcode), OpEAReg(opcode))))
      [] OpEAMode(opcode) = ModeAddrPreDec ->
            SubL(a, Increment(OpSize(opcode), OpEAReg(opcode)))
      [] OTHER -> a

\* C29: an addq #k,<ea> or add Dn,<ea> that returned no error wrote to the
\* address it read, and changed the address register of (An)+ or -(An) by one
\* step of the operand size
C29_Original ==
    (RanOne /\ lastCall.err = "nil" /\ IsReadModifyWrite(lastCall.opcode)) =>
        /\ lastCall.waddr = lastCall.raddr
        /\ OpEAMode(lastCall.opcode) # ModeOther =>
                cpu.A[OpEAReg(lastCall.opcode)]
                    = OneStep(prev.A[OpEAReg(lastCall.opcode)], lastCall.opcode)

====
